---- MODULE Spec2Model ----
\* Verification model of the AI content-generation core: the encryption
\* service, the metafield-backed API-key manager, the two provider variants and
\* the content-generation facade.
\*
\* JavaScript strings are sequences of UTF-16 code units (naturals), so that
\* toLowerCase, split, the hex codec and the UTF-8 codec are computed rather
\* than assumed.  Node Buffers are sequences of bytes (0..255).
EXTENDS Integers, Sequences, FiniteSets, TLC

\* ---------------------------------------------------------------------------
\* Values
\* ---------------------------------------------------------------------------

\* JavaScript null / undefined where a string is expected (no code unit is < 0).
Null == <<-1>>

\* "openaiApiKey"
openaiApiKey == <<111, 112, 101, 110, 97, 105, 65, 112, 105, 75, 101, 121>>
\* "deepseekApiKey"
deepseekApiKey == <<100, 101, 101, 112, 115, 101, 101, 107, 65, 112, 105, 75, 101, 121>>
\* "unknown"
unknown == <<117, 110, 107, 110, 111, 119, 110>>
\* "hex:"
hexPrefix == <<104, 101, 120, 58>>
\* "default_encryption_key_for_development_only"
defaultKey == <<100, 101, 102, 97, 117, 108, 116, 95, 101, 110, 99, 114, 121, 112,
                116, 105, 111, 110, 95, 107, 101, 121, 95, 102, 111, 114, 95, 100,
                101, 118, 101, 108, 111, 112, 109, 101, 110, 116, 95, 111, 110, 108,
                121>>
\* ":" , the delimiter between the IV and the cipher output
Delimiter == <<58>>

\* A completed call: either a returned value or a thrown Error with a message.
Return(v) == [threw |-> FALSE, value |-> v, message |-> ""]
Throw(msg) == [threw |-> TRUE, value |-> Null, message |-> msg]

\* ---------------------------------------------------------------------------
\* String and Buffer primitives of the runtime
\* ---------------------------------------------------------------------------

\* String.prototype.toLowerCase (ASCII letters; every other code unit used in
\* this model has no lower-case mapping).
toLowerCase(s) ==
  [i \in 1..Len(s) |-> IF s[i] >= 65 /\ s[i] <= 90 THEN s[i] + 32 ELSE s[i]]

\* String.prototype.startsWith
startsWith(s, p) == Len(s) >= Len(p) /\ SubSeq(s, 1, Len(p)) = p

\* String.prototype.substring(n): the code units from index n (0-based) on.
substring(s, n) == SubSeq(s, n + 1, Len(s))

\* String.prototype.split with a one-code-unit separator.
RECURSIVE split(_, _)
split(s, d) ==
  IF \A i \in 1..Len(s) : s[i] # d
  THEN <<s>>
  ELSE LET k == CHOOSE i \in 1..Len(s) : s[i] = d /\ \A j \in 1..(i - 1) : s[j] # d
       IN <<SubSeq(s, 1, k - 1)>> \o split(SubSeq(s, k + 1, Len(s)), d)

HexDigits == <<48, 49, 50, 51, 52, 53, 54, 55, 56, 57, 97, 98, 99, 100, 101, 102>>

\* Value of a hex digit, -1 for any other code unit (upper and lower case).
unhex(c) ==
  IF c >= 48 /\ c <= 57 THEN c - 48
  ELSE IF c >= 97 /\ c <= 102 THEN c - 87
  ELSE IF c >= 65 /\ c <= 70 THEN c - 55
  ELSE -1

\* buffer.toString('hex') / the 'hex' output encoding: two lower-case digits
\* per byte.
RECURSIVE toHex(_)
toHex(bytes) ==
  IF Len(bytes) = 0 THEN <<>>
  ELSE <<HexDigits[(Head(bytes) \div 16) + 1], HexDigits[(Head(bytes) % 16) + 1]>>
       \o toHex(Tail(bytes))

\* Buffer.from(s, 'hex') / the 'hex' input encoding: decodes digit pairs and
\* stops at the first pair that is not two hex digits; an odd last digit is
\* dropped.
RECURSIVE fromHex(_)
fromHex(s) ==
  IF Len(s) < 2 \/ unhex(s[1]) < 0 \/ unhex(s[2]) < 0 THEN <<>>
  ELSE <<unhex(s[1]) * 16 + unhex(s[2])>> \o fromHex(SubSeq(s, 3, Len(s)))

\* Exclusive or of two 4-bit values: xor4[a + 1][b + 1].
xor4 ==
  <<<<0, 1, 2, 3, 4, 5, 6, 7, 8, 9, 10, 11, 12, 13, 14, 15>>,
   <<1, 0, 3, 2, 5, 4, 7, 6, 9, 8, 11, 10, 13, 12, 15, 14>>,
   <<2, 3, 0, 1, 6, 7, 4, 5, 10, 11, 8, 9, 14, 15, 12, 13>>,
   <<3, 2, 1, 0, 7, 6, 5, 4, 11, 10, 9, 8, 15, 14, 13, 12>>,
   <<4, 5, 6, 7, 0, 1, 2, 3, 12, 13, 14, 15, 8, 9, 10, 11>>,
   <<5, 4, 7, 6, 1, 0, 3, 2, 13, 12, 15, 14, 9, 8, 11, 10>>,
   <<6, 7, 4, 5, 2, 3, 0, 1, 14, 15, 12, 13, 10, 11, 8, 9>>,
   <<7, 6, 5, 4, 3, 2, 1, 0, 15, 14, 13, 12, 11, 10, 9, 8>>,
   <<8, 9, 10, 11, 12, 13, 14, 15, 0, 1, 2, 3, 4, 5, 6, 7>>,
   <<9, 8, 11, 10, 13, 12, 15, 14, 1, 0, 3, 2, 5, 4, 7, 6>>,
   <<10, 11, 8, 9, 14, 15, 12, 13, 2, 3, 0, 1, 6, 7, 4, 5>>,
   <<11, 10, 9, 8, 15, 14, 13, 12, 3, 2, 1, 0, 7, 6, 5, 4>>,
   <<12, 13, 14, 15, 8, 9, 10, 11, 4, 5, 6, 7, 0, 1, 2, 3>>,
   <<13, 12, 15, 14, 9, 8, 11, 10, 5, 4, 7, 6, 1, 0, 3, 2>>,
   <<14, 15, 12, 13, 10, 11, 8, 9, 6, 7, 4, 5, 2, 3, 0, 1>>,
   <<15, 14, 13, 12, 11, 10, 9, 8, 7, 6, 5, 4, 3, 2, 1, 0>>>>

\* Bitwise exclusive or of two bytes.
xor(a, b) ==
  16 * xor4[(a \div 16) + 1][(b \div 16) + 1] + xor4[(a % 16) + 1][(b % 16) + 1]

isHighSurrogate(c) == c >= 55296 /\ c <= 56319
isLowSurrogate(c) == c >= 56320 /\ c <= 57343

\* UTF-8 bytes of one code point.
utf8OfCodePoint(cp) ==
  IF cp < 128 THEN <<cp>>
  ELSE IF cp < 2048 THEN <<192 + (cp \div 64), 128 + (cp % 64)>>
  ELSE IF cp < 65536
       THEN <<224 + (cp \div 4096), 128 + ((cp \div 64) % 64), 128 + (cp % 64)>>
  ELSE <<240 + (cp \div 262144), 128 + ((cp \div 4096) % 64),
         128 + ((cp \div 64) % 64), 128 + (cp % 64)>>

\* The 'utf8' input encoding of a string: a surrogate pair is one code point,
\* an unpaired surrogate is encoded as U+FFFD.
RECURSIVE utf8Encode(_)
utf8Encode(s) ==
  IF Len(s) = 0 THEN <<>>
  ELSE IF isHighSurrogate(s[1]) /\ Len(s) >= 2 /\ isLowSurrogate(s[2])
       THEN utf8OfCodePoint(65536 + (s[1] - 55296) * 1024 + (s[2] - 56320))
            \o utf8Encode(SubSeq(s, 3, Len(s)))
  ELSE IF isHighSurrogate(s[1]) \/ isLowSurrogate(s[1])
       THEN <<239, 191, 189>> \o utf8Encode(Tail(s))
  ELSE utf8OfCodePoint(s[1]) \o utf8Encode(Tail(s))

isCont(b, lo, hi) == b >= lo /\ b <= hi

\* Code units of one code point.
unitsOfCodePoint(cp) ==
  IF cp < 65536 THEN <<cp>>
  ELSE <<55296 + ((cp - 65536) \div 1024), 56320 + ((cp - 65536) % 1024)>>

\* The 'utf8' output encoding of bytes: every maximal ill-formed subsequence
\* becomes one U+FFFD.
RECURSIVE utf8Decode(_)
utf8Decode(b) ==
  IF Len(b) = 0 THEN <<>>
  ELSE
    LET b1 == b[1]
        n == Len(b)
        lo2 == IF b1 = 224 THEN 160 ELSE IF b1 = 240 THEN 144 ELSE 128
        hi2 == IF b1 = 237 THEN 159 ELSE IF b1 = 244 THEN 143 ELSE 191
        need == IF b1 < 128 THEN 0
                ELSE IF b1 >= 194 /\ b1 <= 223 THEN 1
                ELSE IF b1 >= 224 /\ b1 <= 239 THEN 2
                ELSE IF b1 >= 240 /\ b1 <= 244 THEN 3
                ELSE -1
        ok2 == n >= 2 /\ isCont(b[2], lo2, hi2)
        ok3 == ok2 /\ n >= 3 /\ isCont(b[3], 128, 191)
        ok4 == ok3 /\ n >= 4 /\ isCont(b[4], 128, 191)
        rest(k) == utf8Decode(SubSeq(b, k + 1, n))
    IN IF need = 0 THEN <<b1>> \o rest(1)
       ELSE IF need = -1 THEN <<65533>> \o rest(1)
       ELSE IF need = 1
            THEN IF ok2 THEN <<(b1 - 192) * 64 + (b[2] - 128)>> \o rest(2)
                 ELSE <<65533>> \o rest(1)
       ELSE IF need = 2
            THEN IF ok3
                 THEN <<(b1 - 224) * 4096 + (b[2] - 128) * 64 + (b[3] - 128)>> \o rest(3)
                 ELSE <<65533>> \o rest(IF ok2 THEN 2 ELSE 1)
       ELSE IF ok4
            THEN unitsOfCodePoint((b1 - 240) * 262144 + (b[2] - 128) * 4096
                                  + (b[3] - 128) * 64 + (b[4] - 128)) \o rest(4)
            ELSE <<65533>> \o rest(IF ok3 THEN 3 ELSE IF ok2 THEN 2 ELSE 1)

\* ---------------------------------------------------------------------------
\* EncryptionService (aes-256-cbc)
\* ---------------------------------------------------------------------------

\* Bytes of an AES-256 key.
KEY_LENGTH == 32
\* Bytes of the initialization vector, which is also the cipher's block size.
IV_LENGTH == 16

\* crypto.createHash('sha256').update(key).digest(): a 32-byte digest of the
\* string.  The digest function is a stand-in that depends on every code unit
\* and its position.
RECURSIVE weightedSum(_, _, _)
weightedSum(s, j, w) ==
  IF j > Len(s) THEN 0 ELSE (s[j] * (1 + w * j) + weightedSum(s, j + 1, w)) % 256

sha256(s) ==
  LET c1 == weightedSum(s, 1, 0)
      c2 == weightedSum(s, 1, 1)
  IN [i \in 1..KEY_LENGTH |-> (c1 * i + c2 + 7 * i * i) % 256]

\* getEncryptionKey as it would be if a hex key of the wrong length were
\* hashed like any other string.
getEncryptionKey_HashWrongLength(env) ==
  LET key == IF env = Null \/ env = <<>> THEN defaultKey ELSE env
  IN IF startsWith(key, hexPrefix) /\ Len(fromHex(substring(key, 4))) = KEY_LENGTH
     THEN Return(fromHex(substring(key, 4)))
     ELSE Return(sha256(key))

\* getEncryptionKey: the key bytes derived from process.env.ENCRYPTION_KEY
\* (env, Null when unset), or a thrown Error for a hex key that is not 32 bytes.
getEncryptionKey(env) ==
  LET key == IF env = Null \/ env = <<>> THEN defaultKey ELSE env
  IN IF startsWith(key, hexPrefix)
     THEN LET buffer == fromHex(substring(key, 4))
          IN IF Len(buffer) # KEY_LENGTH
             THEN Throw("ENCRYPTION_KEY must be 32 bytes (64 hex characters)")
             ELSE Return(buffer)
     ELSE Return(sha256(key))

xorBlock(a, b) == [i \in 1..IV_LENGTH |-> xor(a[i], b[i])]

\* The block cipher under createCipheriv / createDecipheriv: a keyed
\* permutation of 16-byte blocks (key whitening, byte rotation, key whitening)
\* standing in for AES, and its inverse.
blockEncrypt(key, block) ==
  [i \in 1..IV_LENGTH |->
     xor(xor(block[(i % IV_LENGTH) + 1], key[(i % IV_LENGTH) + 1]), key[IV_LENGTH + i])]

blockDecrypt(key, block) ==
  [i \in 1..IV_LENGTH |->
     LET j == ((i + IV_LENGTH - 2) % IV_LENGTH) + 1
     IN xor(xor(block[j], key[IV_LENGTH + j]), key[i])]

\* PKCS#7 padding added by cipher.final(): 1..16 bytes, each the pad length.
pkcs7Pad(data) ==
  LET n == IV_LENGTH - (Len(data) % IV_LENGTH)
  IN data \o [i \in 1..n |-> n]

\* decipher.final() accepts the last block only if it ends in n bytes of value
\* n, 1 <= n <= 16.
pkcs7Valid(data) ==
  /\ Len(data) >= IV_LENGTH
  /\ LET n == data[Len(data)]
     IN /\ n >= 1
        /\ n <= IV_LENGTH
        /\ \A i \in (Len(data) - n + 1)..Len(data) : data[i] = n

\* pkcs7Unpad as it would be if the decipher left the padding in place.
pkcs7Unpad_KeepPadding(data) == data

pkcs7Unpad(data) == SubSeq(data, 1, Len(data) - data[Len(data)])

\* Cipher block chaining over whole blocks.
RECURSIVE cbcEncrypt(_, _, _)
cbcEncrypt(key, prev, data) ==
  IF Len(data) = 0 THEN <<>>
  ELSE LET c == blockEncrypt(key, xorBlock(SubSeq(data, 1, IV_LENGTH), prev))
       IN c \o cbcEncrypt(key, c, SubSeq(data, IV_LENGTH + 1, Len(data)))

RECURSIVE cbcDecrypt(_, _, _)
cbcDecrypt(key, prev, data) ==
  IF Len(data) = 0 THEN <<>>
  ELSE LET c == SubSeq(data, 1, IV_LENGTH)
       IN xorBlock(blockDecrypt(key, c), prev)
          \o cbcDecrypt(key, c, SubSeq(data, IV_LENGTH + 1, Len(data)))

\* encrypt as it would be with a constant all-zero IV instead of the random one.
encrypt_FixedIv(plaintext, iv, env) ==
  LET key == getEncryptionKey(env)
      zero == [i \in 1..IV_LENGTH |-> 0]
  IN IF key.threw
     THEN Throw("Failed to encrypt data")
     ELSE Return(toHex(zero) \o Delimiter
                 \o toHex(cbcEncrypt(key.value, zero, pkcs7Pad(utf8Encode(plaintext)))))

\* encrypt(plaintext) with iv the value crypto.randomBytes(16) returned:
\* the token hex(iv) ":" hex(cipher output), or Error('Failed to encrypt data').
encrypt(plaintext, iv, env) ==
  LET key == getEncryptionKey(env)
  IN IF key.threw
     THEN Throw("Failed to encrypt data")
     ELSE Return(toHex(iv) \o Delimiter
                 \o toHex(cbcEncrypt(key.value, iv, pkcs7Pad(utf8Encode(plaintext)))))

\* decrypt as it would be without the parts.length !== 2 check: the first two
\* parts are used and the rest ignored.
decrypt_NoLengthCheck(encryptedText, env) ==
  LET parts == split(encryptedText, Delimiter[1])
  IN IF Len(parts) < 2
     THEN Throw("Failed to decrypt data")
     ELSE LET iv == fromHex(parts[1])
              encrypted == fromHex(parts[2])
              key == getEncryptionKey(env)
          IN IF \/ key.threw
                \/ Len(iv) # IV_LENGTH
                \/ Len(encrypted) = 0
                \/ Len(encrypted) % IV_LENGTH # 0
             THEN Throw("Failed to decrypt data")
             ELSE LET plain == cbcDecrypt(key.value, iv, encrypted)
                  IN IF pkcs7Valid(plain)
                     THEN Return(utf8Decode(pkcs7Unpad(plain)))
                     ELSE Throw("Failed to decrypt data")

\* decrypt(encryptedText): the plaintext, or Error('Failed to decrypt data')
\* when the token does not split in two, the key is rejected, the IV is not 16
\* bytes, the cipher text is not a positive number of blocks or the padding is
\* invalid.
decrypt(encryptedText, env) ==
  LET parts == split(encryptedText, Delimiter[1])
  IN IF Len(parts) # 2
     THEN Throw("Failed to decrypt data")
     ELSE LET iv == fromHex(parts[1])
              encrypted == fromHex(parts[2])
              key == getEncryptionKey(env)
          IN IF \/ key.threw
                \/ Len(iv) # IV_LENGTH
                \/ Len(encrypted) = 0
                \/ Len(encrypted) % IV_LENGTH # 0
             THEN Throw("Failed to decrypt data")
             ELSE LET plain == cbcDecrypt(key.value, iv, encrypted)
                  IN IF pkcs7Valid(plain)
                     THEN Return(utf8Decode(pkcs7Unpad(plain)))
                     ELSE Throw("Failed to decrypt data")

\* ---------------------------------------------------------------------------
\* Structured-text parser (identical in both providers)
\* ---------------------------------------------------------------------------

\* "# TITLE", "# DESCRIPTION", "# SEO_TITLE", "# SEO_DESCRIPTION", "# KEYWORDS"
headingTitle == <<35, 32, 84, 73, 84, 76, 69>>
headingDescription == <<35, 32, 68, 69, 83, 67, 82, 73, 80, 84, 73, 79, 78>>
headingSeoTitle == <<35, 32, 83, 69, 79, 95, 84, 73, 84, 76, 69>>
headingSeoDescription ==
  <<35, 32, 83, 69, 79, 95, 68, 69, 83, 67, 82, 73, 80, 84, 73, 79, 78>>
headingKeywords == <<35, 32, 75, 69, 89, 87, 79, 82, 68, 83>>
\* "\n# ", the lookahead that ends a section
sectionEnd == <<10, 35, 32>>

\* The regular expression class \s, which is also what trim() strips.
isSpace(c) ==
  \/ c \in {9, 10, 11, 12, 13, 32, 160, 5760, 8232, 8233, 8239, 8287, 12288, 65279}
  \/ (c >= 8192 /\ c <= 8202)

\* String.prototype.trim
trim(s) ==
  LET keep == {i \in 1..Len(s) : ~isSpace(s[i])}
  IN IF keep = {} THEN <<>>
     ELSE SubSeq(s, CHOOSE i \in keep : \A j \in keep : i <= j,
                    CHOOSE i \in keep : \A j \in keep : i >= j)

hasAt(s, p, i) == i + Len(p) - 1 <= Len(s) /\ SubSeq(s, i, i + Len(p) - 1) = p

\* The newlines of the whitespace run that starts at index e.
runNewlines(s, e) ==
  {k \in e..Len(s) : s[k] = 10 /\ \A j \in e..k : isSpace(s[j])}

\* rawContent.match(/HEADING\s*\n([\s\S]*?)(?=\n# |$)/): the leftmost heading
\* whose following whitespace holds a newline; group 1 runs from after the last
\* such newline (\s* is greedy) to the first "\n# " or the end of the text.
sectionMatch(raw, heading) ==
  LET starts == {i \in 1..Len(raw) :
                   hasAt(raw, heading, i) /\ runNewlines(raw, i + Len(heading)) # {}}
  IN IF starts = {} THEN [matched |-> FALSE, group |-> <<>>]
     ELSE LET i == CHOOSE a \in starts : \A b \in starts : a <= b
              nls == runNewlines(raw, i + Len(heading))
              c == (CHOOSE a \in nls : \A b \in nls : a >= b) + 1
              ends == {j \in c..(Len(raw) + 1) :
                         j = Len(raw) + 1 \/ hasAt(raw, sectionEnd, j)}
              e == CHOOSE a \in ends : \A b \in ends : a <= b
          IN [matched |-> TRUE, group |-> SubSeq(raw, c, e - 1)]

\* match && match[1]: a match with a non-empty group
sectionFound(m) == m.matched /\ m.group # <<>>

RECURSIVE trimAll(_)
trimAll(parts) ==
  IF Len(parts) = 0 THEN <<>>
  ELSE LET t == trim(Head(parts))
       IN (IF Len(t) > 0 THEN <<t>> ELSE <<>>) \o trimAll(Tail(parts))

\* .trim().split(',').map(k => k.trim()).filter(k => k.length > 0)
splitKeywords(group) == trimAll(split(trim(group), 44))

\* A field that is always present: the trimmed group, '' without a match.
required(m) == IF sectionFound(m) THEN trim(m.group) ELSE <<>>

\* A field that is assigned only on a match: a record with that field, or the
\* record without fields.
optional(name, m, value) ==
  IF sectionFound(m) THEN [f \in {name} |-> value] ELSE [f \in {} |-> <<>>]

\* parseGeneratedContent(rawContent)
parseGeneratedContent(rawContent) ==
  [title |-> required(sectionMatch(rawContent, headingTitle)),
   description |-> required(sectionMatch(rawContent, headingDescription))]
    @@ optional("seoTitle", sectionMatch(rawContent, headingSeoTitle),
                trim(sectionMatch(rawContent, headingSeoTitle).group))
    @@ optional("seoDescription", sectionMatch(rawContent, headingSeoDescription),
                trim(sectionMatch(rawContent, headingSeoDescription).group))
    @@ optional("keywords", sectionMatch(rawContent, headingKeywords),
                splitKeywords(sectionMatch(rawContent, headingKeywords).group))

\* ---------------------------------------------------------------------------
\* Metafield store (the platform's per-shop key/value record)
\* ---------------------------------------------------------------------------

\* Keys under the namespace 'apiservice'.
API_KEY_FIELD_KEY == "encrypted_key"
API_KEY_PROVIDER_KEY == "provider"
MetafieldKeys == {API_KEY_FIELD_KEY, API_KEY_PROVIDER_KEY, "custom_prompt", "default_length"}

\* A JavaScript string that is falsy: null, undefined or ''.
falsy(s) == s = Null \/ s = <<>>

\* getMetafield: the stored value, null for a key never set, and null when the
\* platform call fails (answered = FALSE).
getMetafield(st, key, answered) == IF answered THEN st[key] ELSE Null

\* setMetafield: stores the value and returns true; returns false and stores
\* nothing when the platform reports user errors or the call fails
\* (accepted = FALSE).
setMetafield(st, key, value, accepted) ==
  IF accepted
  THEN [ok |-> TRUE, store |-> [st EXCEPT ![key] = value]]
  ELSE [ok |-> FALSE, store |-> st]

\* What admin.graphql and response.json() give MetafieldsService: the call
\* throws ("threw"), the body has no data member ("noData", reading it throws
\* a TypeError), or the body carries data.  For the query data.shop.metafield
\* is null or an object with the value; for the mutation data.metafieldsSet is
\* null or a payload with its userErrors.
queryReply(st, key, kind) ==
  IF kind = "data"
  THEN [kind |-> "data",
        metafield |-> IF st[key] = Null THEN [isNull |-> TRUE]
                      ELSE [isNull |-> FALSE, value |-> st[key]]]
  ELSE [kind |-> kind]

MutationReplies ==
  {[kind |-> "threw"], [kind |-> "noData"],
   [kind |-> "data", metafieldsSet |-> [isNull |-> TRUE]],
   [kind |-> "data", metafieldsSet |-> [isNull |-> FALSE, userErrors |-> <<>>]],
   [kind |-> "data",
    metafieldsSet |-> [isNull |-> FALSE, userErrors |-> <<"Value is invalid">>]]}

\* The platform wrote the metafield: it answered with a payload without
\* user errors.
written(reply) ==
  /\ reply.kind = "data"
  /\ ~reply.metafieldsSet.isNull
  /\ reply.metafieldsSet.userErrors = <<>>

\* getMetafield's try and catch blocks over the platform's reply.
getMetafieldOn(reply) ==
  IF reply.kind # "data" THEN Return(Null)
  ELSE IF reply.metafield.isNull THEN Return(Null)
  ELSE Return(reply.metafield.value)

\* setMetafield's try and catch blocks over the platform's reply:
\* userErrors = responseJson.data.metafieldsSet?.userErrors || [].
setMetafieldOn(reply) ==
  IF reply.kind # "data" THEN Return(FALSE)
  ELSE IF ~reply.metafieldsSet.isNull /\ Len(reply.metafieldsSet.userErrors) > 0
  THEN Return(FALSE)
  ELSE Return(TRUE)

\* ---------------------------------------------------------------------------
\* ApiKeysService
\* ---------------------------------------------------------------------------

\* saveApiKey as it would be if the key were stored as given.
saveApiKey_Plaintext(st, env, provider, apiKey, iv, w1, w2) ==
  LET s1 == setMetafield(st, API_KEY_FIELD_KEY, apiKey, w1)
      s2 == setMetafield(s1.store, API_KEY_PROVIDER_KEY, provider, w2)
  IN [ret |-> TRUE,
      store |-> s2.store,
      writes |-> <<[key |-> API_KEY_FIELD_KEY, value |-> apiKey, ok |-> s1.ok],
                   [key |-> API_KEY_PROVIDER_KEY, value |-> provider, ok |-> s2.ok]>>]

\* saveApiKey as it would be if a failed provider write put the previous
\* ciphertext back.
saveApiKey_Rollback(st, env, provider, apiKey, iv, w1, w2) ==
  LET encryptedKey == encrypt(apiKey, iv, env)
  IN IF encryptedKey.threw
     THEN [ret |-> FALSE, store |-> st, writes |-> <<>>]
     ELSE LET s1 == setMetafield(st, API_KEY_FIELD_KEY, encryptedKey.value, w1)
              s2 == setMetafield(s1.store, API_KEY_PROVIDER_KEY, provider, w2)
          IN [ret |-> s1.ok /\ s2.ok,
              store |-> IF s2.ok THEN s2.store ELSE st,
              writes |-> <<[key |-> API_KEY_FIELD_KEY, value |-> encryptedKey.value,
                            ok |-> s1.ok],
                           [key |-> API_KEY_PROVIDER_KEY, value |-> provider,
                            ok |-> s2.ok]>>]

\* saveApiKey(session, provider, apiKey); iv is what randomBytes returned and
\* w1, w2 tell whether the platform accepted the two writes.
saveApiKey(st, env, provider, apiKey, iv, w1, w2) ==
  LET encryptedKey == encrypt(apiKey, iv, env)
  IN IF encryptedKey.threw
     THEN [ret |-> FALSE, store |-> st, writes |-> <<>>]
     ELSE LET s1 == setMetafield(st, API_KEY_FIELD_KEY, encryptedKey.value, w1)
              s2 == setMetafield(s1.store, API_KEY_PROVIDER_KEY, provider, w2)
          IN [ret |-> TRUE,
              store |-> s2.store,
              writes |-> <<[key |-> API_KEY_FIELD_KEY, value |-> encryptedKey.value,
                            ok |-> s1.ok],
                           [key |-> API_KEY_PROVIDER_KEY, value |-> provider,
                            ok |-> s2.ok]>>]

\* The null result of getApiKey; decrypts counts the calls of decrypt.
noApiKey(decrypts) == [isNull |-> TRUE, decrypts |-> decrypts]

\* getApiKey as it would be if the provider argument were ignored.
getApiKey_NoFilter(st, env, provider, r1, r2) ==
  LET encryptedKey == getMetafield(st, API_KEY_FIELD_KEY, r1)
  IN IF falsy(encryptedKey)
     THEN noApiKey(0)
     ELSE LET storedProvider == getMetafield(st, API_KEY_PROVIDER_KEY, r2)
              apiKey == decrypt(encryptedKey, env)
          IN IF apiKey.threw
             THEN noApiKey(1)
             ELSE [isNull |-> FALSE,
                   provider |-> IF falsy(storedProvider) THEN unknown
                                ELSE storedProvider,
                   apiKey |-> apiKey.value,
                   decrypts |-> 1]

\* getApiKey as it would be if a failed decryption were passed over: the
\* record is returned with apiKey undefined.
getApiKey_UndefinedOnFailure(st, env, provider, r1, r2) ==
  LET encryptedKey == getMetafield(st, API_KEY_FIELD_KEY, r1)
  IN IF falsy(encryptedKey)
     THEN noApiKey(0)
     ELSE LET storedProvider == getMetafield(st, API_KEY_PROVIDER_KEY, r2)
          IN IF ~falsy(provider) /\ storedProvider # provider
             THEN noApiKey(0)
             ELSE [isNull |-> FALSE,
                   provider |-> IF falsy(storedProvider) THEN unknown
                                ELSE storedProvider,
                   apiKey |-> decrypt(encryptedKey, env).value,
                   decrypts |-> 1]

\* getApiKey(session, provider?); provider is Null when the argument is
\* omitted, r1 and r2 tell whether the platform answered the two reads.
getApiKey(st, env, provider, r1, r2) ==
  LET encryptedKey == getMetafield(st, API_KEY_FIELD_KEY, r1)
  IN IF falsy(encryptedKey)
     THEN noApiKey(0)
     ELSE LET storedProvider == getMetafield(st, API_KEY_PROVIDER_KEY, r2)
          IN IF ~falsy(provider) /\ storedProvider # provider
             THEN noApiKey(0)
             ELSE LET apiKey == decrypt(encryptedKey, env)
                  IN IF apiKey.threw
                     THEN noApiKey(1)
                     ELSE [isNull |-> FALSE,
                           provider |-> IF falsy(storedProvider) THEN unknown
                                        ELSE storedProvider,
                           apiKey |-> apiKey.value,
                           decrypts |-> 1]

\* deleteApiKey as it would be without the comparison of the stored provider.
deleteApiKey_NoProviderCheck(st, provider, r, w1, w2) ==
  LET s1 == setMetafield(st, API_KEY_FIELD_KEY, <<>>, w1)
      s2 == setMetafield(s1.store, API_KEY_PROVIDER_KEY, <<>>, w2)
  IN [ret |-> TRUE,
      store |-> s2.store,
      writes |-> <<[key |-> API_KEY_FIELD_KEY, value |-> <<>>, ok |-> s1.ok],
                   [key |-> API_KEY_PROVIDER_KEY, value |-> <<>>, ok |-> s2.ok]>>]

\* deleteApiKey(session, provider); r tells whether the platform answered the
\* read, w1 and w2 whether it accepted the two writes.
deleteApiKey(st, provider, r, w1, w2) ==
  LET storedProvider == getMetafield(st, API_KEY_PROVIDER_KEY, r)
  IN IF storedProvider # provider
     THEN [ret |-> FALSE, store |-> st, writes |-> <<>>]
     ELSE LET s1 == setMetafield(st, API_KEY_FIELD_KEY, <<>>, w1)
              s2 == setMetafield(s1.store, API_KEY_PROVIDER_KEY, <<>>, w2)
          IN [ret |-> TRUE,
              store |-> s2.store,
              writes |-> <<[key |-> API_KEY_FIELD_KEY, value |-> <<>>, ok |-> s1.ok],
                           [key |-> API_KEY_PROVIDER_KEY, value |-> <<>>, ok |-> s2.ok]>>]

\* ---------------------------------------------------------------------------
\* Provider variants
\* ---------------------------------------------------------------------------

\* Failure as it would be if the error text were left out of the result.
Failure_NoError(error, errorCode) == [success |-> FALSE, errorCode |-> errorCode]

\* A negative ContentGenerationResult.
Failure(error, errorCode) == [success |-> FALSE, error |-> error, errorCode |-> errorCode]

\* A thrown TypeError (no response attached).
TypeError == [message |-> "Cannot read properties of undefined"]

\* error.response && error.response.status === n
hasStatus(error, n) == "status" \in DOMAIN error /\ error.status = n

\* error.message || fallback
messageOr(error, fallback) == IF error.message # "" THEN error.message ELSE fallback

\* remoteAttempt as it would be if a failed request were sent a second time
\* before giving up.
remoteAttempt_Retry(endpoint, model, apiKey, wellFormed, remote) ==
  LET request == <<[endpoint |-> endpoint, model |-> model, apiKey |-> apiKey]>>
  IN IF ~wellFormed
     THEN [threw |-> TRUE, error |-> TypeError, requests |-> <<>>]
     ELSE IF remote.kind = "error"
     THEN [threw |-> TRUE, error |-> remote.error, requests |-> request \o request]
     ELSE IF remote.kind = "noChoices"
     THEN [threw |-> TRUE, error |-> TypeError, requests |-> request]
     ELSE [threw |-> FALSE,
           rawContent |-> IF falsy(remote.content) THEN <<>> ELSE remote.content,
           requests |-> request]

\* The body of a provider's try block up to the raw reply: create the client,
\* build the prompt (a TypeError when the input lacks what the prompt reads),
\* issue one chat-completion request with the key, and read
\* choices[0].message?.content || ''.
remoteAttempt(endpoint, model, apiKey, wellFormed, remote) ==
  LET request == <<[endpoint |-> endpoint, model |-> model, apiKey |-> apiKey]>>
  IN IF ~wellFormed
     THEN [threw |-> TRUE, error |-> TypeError, requests |-> <<>>]
     ELSE IF remote.kind = "error"
     THEN [threw |-> TRUE, error |-> remote.error, requests |-> request]
     ELSE IF remote.kind = "noChoices"
     THEN [threw |-> TRUE, error |-> TypeError, requests |-> request]
     ELSE [threw |-> FALSE,
           rawContent |-> IF falsy(remote.content) THEN <<>> ELSE remote.content,
           requests |-> request]

\* The positive result built from the raw reply and the reply's usage block.
generated(model, rawContent, remote) ==
  [success |-> TRUE,
   content |-> parseGeneratedContent(rawContent),
   metadata |-> IF "usage" \in DOMAIN remote
                THEN [model |-> model,
                      promptTokens |-> remote.usage.prompt_tokens,
                      completionTokens |-> remote.usage.completion_tokens,
                      totalTokens |-> remote.usage.total_tokens]
                ELSE [model |-> model]]

\* !previousResult.success || !previousResult.content
noPreviousContent(previousResult) ==
  ~previousResult.success \/ "content" \notin DOMAIN previousResult

\* OpenAIProvider.generateProductContent
openaiGenerateProductContent(apiKey, wellFormed, remote) ==
  LET a == remoteAttempt("openai", "gpt-4", apiKey, wellFormed, remote)
  IN [requests |-> a.requests,
      result |->
        IF ~a.threw THEN generated("gpt-4", a.rawContent, remote)
        ELSE IF hasStatus(a.error, 401)
        THEN Failure("Invalid API key. Please check your OpenAI API key in the settings.",
                     "INVALID_API_KEY")
        ELSE IF hasStatus(a.error, 429)
        THEN Failure("OpenAI rate limit exceeded. Please try again later.",
                     "RATE_LIMIT_EXCEEDED")
        ELSE Failure(messageOr(a.error,
                       "An error occurred while generating content with OpenAI."),
                     "OPENAI_ERROR")]

\* OpenAIProvider.regenerateContent
openaiRegenerateContent(apiKey, previousResult, remote) ==
  IF noPreviousContent(previousResult)
  THEN [requests |-> <<>>,
        result |-> Failure("No previous content to regenerate", "NO_PREVIOUS_CONTENT")]
  ELSE LET a == remoteAttempt("openai", "gpt-4", apiKey, TRUE, remote)
       IN [requests |-> a.requests,
           result |->
             IF ~a.threw THEN generated("gpt-4", a.rawContent, remote)
             ELSE Failure(messageOr(a.error,
                            "An error occurred while regenerating content with OpenAI."),
                          "OPENAI_REGENERATION_ERROR")]

\* OpenAIProvider.generateFromImage
openaiGenerateFromImage(apiKey, wellFormed, remote) ==
  LET a == remoteAttempt("openai", "gpt-4-vision-preview", apiKey, wellFormed, remote)
  IN [requests |-> a.requests,
      result |->
        IF ~a.threw THEN generated("gpt-4-vision-preview", a.rawContent, remote)
        ELSE IF hasStatus(a.error, 400)
        THEN Failure("Invalid image format or URL. Please provide a valid image.",
                     "INVALID_IMAGE")
        ELSE Failure(messageOr(a.error,
                       "An error occurred while generating content from image with OpenAI."),
                     "OPENAI_IMAGE_ERROR")]

\* DeepSeekProvider.generateProductContent
deepseekGenerateProductContent(apiKey, wellFormed, remote) ==
  LET a == remoteAttempt("deepseek", "deepseek-coder-v2", apiKey, wellFormed, remote)
  IN [requests |-> a.requests,
      result |->
        IF ~a.threw THEN generated("deepseek-coder-v2", a.rawContent, remote)
        ELSE IF hasStatus(a.error, 401)
        THEN Failure("Invalid API key. Please check your DeepSeek API key in the settings.",
                     "INVALID_API_KEY")
        ELSE IF hasStatus(a.error, 429)
        THEN Failure("DeepSeek rate limit exceeded. Please try again later.",
                     "RATE_LIMIT_EXCEEDED")
        ELSE Failure(messageOr(a.error,
                       "An error occurred while generating content with DeepSeek."),
                     "DEEPSEEK_ERROR")]

\* DeepSeekProvider.regenerateContent
deepseekRegenerateContent(apiKey, previousResult, remote) ==
  IF noPreviousContent(previousResult)
  THEN [requests |-> <<>>,
        result |-> Failure("No previous content to regenerate", "NO_PREVIOUS_CONTENT")]
  ELSE LET a == remoteAttempt("deepseek", "deepseek-coder-v2", apiKey, TRUE, remote)
       IN [requests |-> a.requests,
           result |->
             IF ~a.threw THEN generated("deepseek-coder-v2", a.rawContent, remote)
             ELSE Failure(messageOr(a.error,
                            "An error occurred while regenerating content with DeepSeek."),
                          "DEEPSEEK_REGENERATION_ERROR")]

\* DeepSeekProvider.generateFromImage: builds the prompt and returns the
\* not-supported result without any request; a TypeError from the prompt is
\* caught and reported with the generic image error code.
deepseekGenerateFromImage(apiKey, wellFormed, remote) ==
  LET error == TypeError
      notSupported ==
        Failure("Image-based generation is not currently supported by DeepSeek. Please use OpenAI for this feature.",
                "FEATURE_NOT_SUPPORTED")
  IN [requests |-> <<>>,
      result |->
        IF wellFormed THEN notSupported
        ELSE IF hasStatus(error, 400) THEN notSupported
        ELSE Failure(messageOr(error,
                       "An error occurred while generating content from image with DeepSeek."),
                     "DEEPSEEK_IMAGE_ERROR")]

\* ---------------------------------------------------------------------------
\* AiServiceImplementation (the content-generation facade)
\* ---------------------------------------------------------------------------

\* getProvider as it would be with the OpenAI provider as default case.
getProvider_DefaultOpenAI(provider) ==
  IF toLowerCase(provider) = deepseekApiKey
  THEN [threw |-> FALSE, impl |-> "deepseekProvider"]
  ELSE [threw |-> FALSE, impl |-> "openaiProvider"]

\* getProvider(provider): the provider singleton, or a thrown Error.  The
\* identifier is lower-cased before it is compared with the case labels.
getProvider(provider) ==
  LET p == toLowerCase(provider)
  IN IF p = openaiApiKey THEN [threw |-> FALSE, impl |-> "openaiProvider"]
     ELSE IF p = deepseekApiKey THEN [threw |-> FALSE, impl |-> "deepseekProvider"]
     ELSE [threw |-> TRUE, error |-> [message |-> "Unsupported AI provider"]]

\* provider.generateFromImage is defined on both provider singletons.
implementsGenerateFromImage(impl) == impl \in {"openaiProvider", "deepseekProvider"}

noApiKeyConfigured ==
  Failure("No API key configured. Please configure an API key in the settings.",
          "NO_API_KEY")

\* What a facade call did before it returned or threw: the credential lookup,
\* the provider methods it invoked and the requests those sent.
returned(apiKeyData, result, calls, requests) ==
  [threw |-> FALSE, apiKeyData |-> apiKeyData, result |-> result,
   calls |-> calls, requests |-> requests]

thrown(apiKeyData, error) ==
  [threw |-> TRUE, apiKeyData |-> apiKeyData, error |-> error,
   calls |-> <<>>, requests |-> <<>>]

\* caught as it would be if the facade methods had no catch block.
caught_Rethrow(outcome, errorCode) == outcome

\* The catch block of a facade method: the negative result with the method's
\* error code.
caught(outcome, errorCode) ==
  IF outcome.threw
  THEN returned(outcome.apiKeyData, Failure(outcome.error.message, errorCode),
                outcome.calls, outcome.requests)
  ELSE outcome

call(impl, method, apiKey) == <<[impl |-> impl, method |-> method, apiKey |-> apiKey]>>

\* return await provider.method(apiKeyData.apiKey, ...): the provider's result
\* r is the facade's result.
delegated(apiKeyData, impl, method, r) ==
  returned(apiKeyData, r.result, call(impl, method, apiKeyData.apiKey), r.requests)

\* generateProductContent from this.getProvider(...) on.
generateProductContentVia(apiKeyData, provider, wellFormed, remote) ==
  IF provider.threw
  THEN thrown(apiKeyData, provider.error)
  ELSE delegated(apiKeyData, provider.impl, "generateProductContent",
                 IF provider.impl = "openaiProvider"
                 THEN openaiGenerateProductContent(apiKeyData.apiKey, wellFormed, remote)
                 ELSE deepseekGenerateProductContent(apiKeyData.apiKey, wellFormed,
                                                     remote))

\* generateProductContent from the !apiKeyData check on.
generateProductContentWith(apiKeyData, wellFormed, remote) ==
  IF apiKeyData.isNull
  THEN returned(apiKeyData, noApiKeyConfigured, <<>>, <<>>)
  ELSE generateProductContentVia(apiKeyData, getProvider(apiKeyData.provider),
                                 wellFormed, remote)

\* The try block of generateProductContent.
tryGenerateProductContent(st, env, r1, r2, wellFormed, remote) ==
  generateProductContentWith(getApiKey(st, env, Null, r1, r2), wellFormed, remote)

\* generateProductContent as it would be without the !apiKeyData check: reading
\* apiKeyData.provider of null throws a TypeError inside the try block.
generateProductContent_NoKeyCheck(st, env, r1, r2, wellFormed, remote) ==
  LET apiKeyData == getApiKey(st, env, Null, r1, r2)
  IN IF apiKeyData.isNull
     THEN caught(thrown(apiKeyData, TypeError), "GENERATION_FAILED")
     ELSE caught(tryGenerateProductContent(st, env, r1, r2, wellFormed, remote),
                 "GENERATION_FAILED")

\* AiServiceImplementation.generateProductContent
generateProductContent(st, env, r1, r2, wellFormed, remote) ==
  caught(tryGenerateProductContent(st, env, r1, r2, wellFormed, remote),
         "GENERATION_FAILED")

\* regenerateContent from this.getProvider(...) on.
regenerateContentVia(apiKeyData, provider, previousResult, remote) ==
  IF provider.threw
  THEN thrown(apiKeyData, provider.error)
  ELSE delegated(apiKeyData, provider.impl, "regenerateContent",
                 IF provider.impl = "openaiProvider"
                 THEN openaiRegenerateContent(apiKeyData.apiKey, previousResult, remote)
                 ELSE deepseekRegenerateContent(apiKeyData.apiKey, previousResult,
                                                remote))

\* regenerateContent from the !apiKeyData check on.
regenerateContentWith(apiKeyData, previousResult, remote) ==
  IF apiKeyData.isNull
  THEN returned(apiKeyData, noApiKeyConfigured, <<>>, <<>>)
  ELSE regenerateContentVia(apiKeyData, getProvider(apiKeyData.provider),
                            previousResult, remote)

\* The try block of regenerateContent.
tryRegenerateContent(st, env, r1, r2, previousResult, remote) ==
  regenerateContentWith(getApiKey(st, env, Null, r1, r2), previousResult, remote)

\* AiServiceImplementation.regenerateContent
regenerateContent(st, env, r1, r2, previousResult, remote) ==
  caught(tryRegenerateContent(st, env, r1, r2, previousResult, remote),
         "REGENERATION_FAILED")

\* generateFromImage from this.getProvider(...) on.
generateFromImageVia(apiKeyData, provider, wellFormed, remote) ==
  IF provider.threw
  THEN thrown(apiKeyData, provider.error)
  ELSE IF ~implementsGenerateFromImage(provider.impl)
  THEN returned(apiKeyData,
                Failure("The provider does not support image-based generation.",
                        "UNSUPPORTED_FEATURE"),
                <<>>, <<>>)
  ELSE delegated(apiKeyData, provider.impl, "generateFromImage",
                 IF provider.impl = "openaiProvider"
                 THEN openaiGenerateFromImage(apiKeyData.apiKey, wellFormed, remote)
                 ELSE deepseekGenerateFromImage(apiKeyData.apiKey, wellFormed, remote))

\* generateFromImage from the !apiKeyData check on.
generateFromImageWith(apiKeyData, wellFormed, remote) ==
  IF apiKeyData.isNull
  THEN returned(apiKeyData, noApiKeyConfigured, <<>>, <<>>)
  ELSE generateFromImageVia(apiKeyData, getProvider(apiKeyData.provider),
                            wellFormed, remote)

\* The try block of generateFromImage.
tryGenerateFromImage(st, env, r1, r2, wellFormed, remote) ==
  generateFromImageWith(getApiKey(st, env, Null, r1, r2), wellFormed, remote)

\* AiServiceImplementation.generateFromImage
generateFromImage(st, env, r1, r2, wellFormed, remote) ==
  caught(tryGenerateFromImage(st, env, r1, r2, wellFormed, remote),
         "IMAGE_GENERATION_FAILED")

\* ---------------------------------------------------------------------------
\* Numbers and the settings route
\* ---------------------------------------------------------------------------

\* A JavaScript number: NaN, or a decimal with one fractional digit held in
\* tenths (2505 is 250.5).
NaN == [isNaN |-> TRUE]
Number(n) == [isNaN |-> FALSE, tenths |-> 10 * n]

isDigit(c) == c >= 48 /\ c <= 57

\* Value of the longest prefix of decimal digits of s from index i on, given
\* the value acc of the digits before i.
RECURSIVE digitsValue(_, _, _)
digitsValue(s, i, acc) ==
  IF i > Len(s) \/ ~isDigit(s[i]) THEN acc
  ELSE digitsValue(s, i + 1, 10 * acc + (s[i] - 48))

\* parseInt(s, 10) of a form value: NaN for null and for a string that does
\* not start, after white space and an optional sign, with a digit.
parseInt(s) ==
  IF s = Null THEN NaN
  ELSE LET t == trim(s)
           signed == Len(t) > 0 /\ t[1] \in {43, 45}
           from == IF signed THEN 2 ELSE 1
       IN IF from > Len(t) \/ ~isDigit(t[from]) THEN NaN
          ELSE Number((IF signed /\ t[1] = 45 THEN -1 ELSE 1) * digitsValue(t, from, 0))

\* Number.prototype.toString of a non-negative integer.
RECURSIVE toString(_)
toString(n) ==
  IF n < 10 THEN <<48 + n>> ELSE toString(n \div 10) \o <<48 + (n % 10)>>

\* z.number().int() with exclusive limits, as .gt(lo).lt(hi) would give.
intBetween_Exclusive(v, lo, hi) ==
  ~v.isNaN /\ v.tenths % 10 = 0 /\ v.tenths > 10 * lo /\ v.tenths < 10 * hi

\* z.number().int().min(lo).max(hi)
intBetween(v, lo, hi) ==
  /\ ~v.isNaN
  /\ v.tenths % 10 = 0
  /\ v.tenths >= 10 * lo
  /\ v.tenths <= 10 * hi

\* z.string().min(lo).max(hi)
stringBetween(v, lo, hi) == v # Null /\ Len(v) >= lo /\ Len(v) <= hi

\* AppSettingsSchema.parse succeeds
AppSettingsSchema(v) ==
  /\ v.apiProvider \in {openaiApiKey, deepseekApiKey}
  /\ stringBetween(v.apiKey, 20, 100)
  /\ stringBetween(v.customPrompt, 10, 1000)
  /\ intBetween(v.defaultLength, 100, 500)

\* The writes of the settings action after validation; saved is what the
\* `if (apiKey)` block did.
settingsWrites(saved, customPrompt, defaultLength, w3, w4) ==
  LET s3 == setMetafield(saved.store, "custom_prompt", customPrompt, w3)
      s4 == setMetafield(s3.store, "default_length",
                         toString(defaultLength.tenths \div 10), w4)
  IN [response |-> "redirect",
      store |-> s4.store,
      saved |-> saved.ret,
      writes |-> saved.writes
                 \o <<[key |-> "custom_prompt", value |-> customPrompt, ok |-> s3.ok],
                      [key |-> "default_length",
                       value |-> toString(defaultLength.tenths \div 10), ok |-> s4.ok]>>]

\* The settings route's action: form holds the four form values as the
\* browser sent them, iv is what randomBytes returned, w1..w4 tell whether the
\* platform accepted the writes.
settingsAction(st, env, form, iv, w1, w2, w3, w4) ==
  IF ~AppSettingsSchema([apiProvider |-> form.apiProvider, apiKey |-> form.apiKey,
                         customPrompt |-> form.customPrompt,
                         defaultLength |-> parseInt(form.defaultLength)])
  THEN [response |-> "json", success |-> FALSE, store |-> st, saved |-> FALSE,
        writes |-> <<>>]
  ELSE settingsWrites(IF ~falsy(form.apiKey)
                      THEN saveApiKey(st, env, form.apiProvider, form.apiKey, iv, w1, w2)
                      ELSE [ret |-> FALSE, store |-> st, writes |-> <<>>],
                      form.customPrompt, parseInt(form.defaultLength), w3, w4)

\* ---------------------------------------------------------------------------
\* The generation routes (POST generate-content, POST regenerate-content)
\* ---------------------------------------------------------------------------

\* Values of the JSON request body.
jsUndefined == [type |-> "undefined"]
jsNumber(v) == [type |-> "number", number |-> v]
jsString(s) == [type |-> "string", string |-> s]

\* !v for a value of the request body
jsFalsy(v) ==
  \/ v.type = "undefined"
  \/ v.type = "string" /\ v.string = <<>>
  \/ v.type = "number" /\ (v.number.isNaN \/ v.number.tenths = 0)

\* GenerationOptionsSchema as it would be without .max(500).
GenerationOptionsSchema_NoMax(v) ==
  /\ v.length.type = "number"
  /\ ~v.length.number.isNaN
  /\ v.length.number.tenths % 10 = 0
  /\ v.length.number.tenths >= 10 * 100

\* GenerationOptionsSchema.parse succeeds
GenerationOptionsSchema(v) ==
  v.length.type = "number" /\ intBetween(v.length.number, 100, 500)

\* FeedbackSchema.parse succeeds
FeedbackSchema(v) ==
  /\ v.feedback.type = "string"
  /\ stringBetween(v.feedback.string, 10, 500)
  /\ v.length.type = "number"
  /\ intBetween(v.length.number, 100, 500)

\* String(v): "undefined", the string itself, "NaN", or the decimal numeral of
\* a non-negative number.
String(v) ==
  IF v.type = "undefined" THEN <<117, 110, 100, 101, 102, 105, 110, 101, 100>>
  ELSE IF v.type = "string" THEN v.string
  ELSE IF v.number.isNaN THEN <<78, 97, 78>>
  ELSE toString(v.number.tenths \div 10)
       \o (IF v.number.tenths % 10 = 0 THEN <<>>
           ELSE <<46, 48 + (v.number.tenths % 10)>>)

\* The length option as it would be if the fallback were always taken.
lengthOption_AlwaysFallback(n) == Number(250)

\* parseInt(String(length), 10) || 250
lengthOption(n) == IF n.isNaN \/ n.tenths = 0 THEN Number(250) ELSE n

\* What a route action did and answered: the HTTP status, the success flag of
\* the body, the calls of getApiKey and getProductById it made itself, and the
\* facade calls (at most one) with their outcome.
routeResponse(status, success, credentialLookups, productFetches, facade) ==
  [status |-> status, success |-> success, credentialLookups |-> credentialLookups,
   productFetches |-> productFetches, facade |-> facade]

\* The response built from the facade's result.
routeDelegated(productFetches, options, outcome) ==
  routeResponse(IF outcome.result.success THEN 200 ELSE 400, outcome.result.success,
                1, productFetches,
                <<[options |-> options, outcome |-> outcome]>>)

\* generate-content from the !apiKeyData check on; fetched tells whether
\* getProductById returned (it throws otherwise).
generateContentWithKey(apiKeyData, st, env, payload, fetched, r1, r2, remote) ==
  IF apiKeyData.isNull \/ falsy(apiKeyData.apiKey)
  THEN routeResponse(400, FALSE, 1, 0, <<>>)
  ELSE IF ~fetched
  THEN routeResponse(500, FALSE, 1, 1, <<>>)
  ELSE routeDelegated(1, [length |-> lengthOption(parseInt(String(payload.length)))],
                      generateProductContent(st, env, r1, r2, TRUE, remote))

\* The action of the generate-content route; answered tells whether the
\* platform answered the route's own metafield reads, r1 and r2 whether it
\* answered the facade's.
generateContentAction(st, env, payload, answered, fetched, r1, r2, remote) ==
  IF jsFalsy(payload.productId)
  THEN routeResponse(400, FALSE, 0, 0, <<>>)
  ELSE IF ~GenerationOptionsSchema([length |-> payload.length])
  THEN routeResponse(500, FALSE, 0, 0, <<>>)
  ELSE generateContentWithKey(getApiKey(st, env, Null, answered, answered),
                              st, env, payload, fetched, r1, r2, remote)

\* regenerate-content from the !apiKeyData check on.
regenerateContentWithKey(apiKeyData, st, env, payload, r1, r2, remote) ==
  IF apiKeyData.isNull \/ falsy(apiKeyData.apiKey)
  THEN routeResponse(400, FALSE, 1, 0, <<>>)
  ELSE routeDelegated(0, [length |-> lengthOption(parseInt(String(payload.length)))],
                      regenerateContent(st, env, r1, r2,
                                        [success |-> TRUE,
                                         content |-> payload.previousContent.content],
                                        remote))

\* The action of the regenerate-content route.
regenerateContentAction(st, env, payload, answered, r1, r2, remote) ==
  IF jsFalsy(payload.productId) \/ payload.previousContent.type = "undefined"
  THEN routeResponse(400, FALSE, 0, 0, <<>>)
  ELSE IF ~FeedbackSchema([feedback |-> payload.feedback, length |-> payload.length])
  THEN routeResponse(500, FALSE, 0, 0, <<>>)
  ELSE regenerateContentWithKey(getApiKey(st, env, Null, answered, answered),
                                st, env, payload, r1, r2, remote)

\* ---------------------------------------------------------------------------
\* State
\* ---------------------------------------------------------------------------

VARIABLES
  env,     \* process.env.ENCRYPTION_KEY, Null when unset
  store,   \* the shop's metafields under 'apiservice': key -> string or Null
  last,    \* the call that completed last, with its arguments and outcome
  enc,     \* the encrypt calls made directly on the encryption service
  dec,     \* the decrypt call made directly on the encryption service
  calls    \* the saveApiKey and deleteApiKey calls running concurrently

vars == <<env, store, last, enc, dec, calls>>

\* ---------------------------------------------------------------------------
\* Inputs
\* ---------------------------------------------------------------------------

\* Largest seed of the initialization vectors randomBytes may return here.
MaxIvSeed == 1
\* Longest plaintext drawn from PlainAlphabet.
MaxPlainLen == 2

ivOf(n) == [i \in 1..IV_LENGTH |-> (n * 37 + i * 11) % 256]
IVs == {ivOf(n) : n \in 0..MaxIvSeed}

\* "sk-" followed by 17 letters: two API keys of 20 characters.
apiKeyOf(n) == <<115, 107, 45>> \o [i \in 1..17 |-> 97 + ((n + i) % 26)]
ApiKeys == {apiKeyOf(0), apiKeyOf(7)}

\* "openai", the identifier the ApiKeysFacade documentation gives as example.
openai == <<111, 112, 101, 110, 97, 105>>
Providers == {openaiApiKey, deepseekApiKey, openai}

\* Provider filters of getApiKey: omitted, '', or an identifier.
Filters == {Null, <<>>, openaiApiKey, deepseekApiKey}

\* "hex:" and n times the digits "a7".
hexKeyOf(n) == hexPrefix \o [i \in 1..(2 * n) |-> IF i % 2 = 1 THEN 97 ELSE 55]
\* ENCRYPTION_KEY unset, a 32-byte hex key, a 4-byte hex key.
Envs == {Null, hexKeyOf(KEY_LENGTH), hexKeyOf(4)}

EmptyStore == [k \in MetafieldKeys |-> Null]

\* "Write copy." and "Short": a custom prompt of 11 characters and one of 5.
customPromptOk == <<87, 114, 105, 116, 101, 32, 99, 111, 112, 121, 46>>
customPromptShort == <<83, 104, 111, 114, 116>>

\* The settings form filled in well ("250" words), and with one field wrong:
\* the key left blank, a provider that is not offered, a prompt too short,
\* a length out of range ("50") and a length that is no number ("").
SettingsFormOk ==
  [apiProvider |-> openaiApiKey, apiKey |-> apiKeyOf(0),
   customPrompt |-> customPromptOk, defaultLength |-> <<50, 53, 48>>]
SettingsForms ==
  {SettingsFormOk,
   [SettingsFormOk EXCEPT !.apiKey = <<>>],
   [SettingsFormOk EXCEPT !.apiProvider = openai],
   [SettingsFormOk EXCEPT !.customPrompt = customPromptShort],
   [SettingsFormOk EXCEPT !.defaultLength = <<53, 48>>],
   [SettingsFormOk EXCEPT !.defaultLength = <<>>]}

\* Largest word count tried against the schemas.
MaxLength == 600

\* The numbers 0, 0.5, 1, 1.5, ... up to MaxLength, and NaN.
Numbers ==
  {[isNaN |-> FALSE, tenths |-> 5 * k] : k \in 0..(2 * MaxLength)} \cup {NaN}

\* "gid://shopify/Product/1"
productIdOf1 ==
  <<103, 105, 100, 58, 47, 47, 115, 104, 111, 112, 105, 102, 121, 47, 80, 114,
    111, 100, 117, 99, 116, 47, 49>>

\* The length of a request body: missing, the string "250", or a number
\* around the limits.
RequestLengths ==
  {jsUndefined, jsString(<<50, 53, 48>>),
   jsNumber([isNaN |-> FALSE, tenths |-> 2505])}
    \cup {jsNumber(Number(n)) : n \in {50, 99, 100, 500, 501, 600}}

\* "Make it shorter." and "Shorter": feedback of 16 characters and of 7.
Feedbacks ==
  {jsUndefined,
   jsString(<<77, 97, 107, 101, 32, 105, 116, 32, 115, 104, 111, 114, 116, 101, 114, 46>>),
   jsString(<<83, 104, 111, 114, 116, 101, 114>>)}

\* Most saveApiKey and deleteApiKey calls started on one shop.
MaxCalls == 3

\* 'a', e-acute, and the two halves of the surrogate pair of U+1F600.
PlainAlphabet == {97, 233, 55357, 56832}
\* Every string of at most MaxPlainLen units of the alphabet, and one API key.
Plaintexts ==
  UNION {[1..k -> PlainAlphabet] : k \in 0..MaxPlainLen} \cup {apiKeyOf(0)}

\* What may happen to a token between encrypt and decrypt.
Tampers ==
  {[kind |-> "none"], [kind |-> "removeDelimiter"], [kind |-> "appendDelimiter"],
   [kind |-> "truncateIv"]}
    \cup {[kind |-> "insertDelimiter", at |-> p] : p \in {1, 2 * IV_LENGTH + 2}}
    \cup {[kind |-> "upperCase", at |-> p] : p \in {1, 2, 2 * IV_LENGTH - 1}}
    \cup {[kind |-> "replace", at |-> p, with |-> c] :
            p \in {1, 2, 2 * IV_LENGTH - 1}, c \in {48, 102, 103}}

tamper(token, t) ==
  CASE t.kind = "none" -> token
    [] t.kind = "removeDelimiter" -> SelectSeq(token, LAMBDA c : c # Delimiter[1])
    [] t.kind = "appendDelimiter" -> token \o Delimiter
    [] t.kind = "truncateIv" -> Tail(Tail(token))
    [] t.kind = "insertDelimiter" ->
         SubSeq(token, 1, t.at - 1) \o Delimiter \o SubSeq(token, t.at, Len(token))
    [] t.kind = "upperCase" ->
         [token EXCEPT ![t.at] = IF @ \in 97..102 THEN @ - 32 ELSE @]
    [] t.kind = "replace" -> [token EXCEPT ![t.at] = t.with]

\* "# TITLE\nFoo\n# DESCRIPTION\nBar baz\n# KEYWORDS\na, b, b, \n"
sampleReply ==
  <<35, 32, 84, 73, 84, 76, 69, 10, 70, 111, 111, 10, 35, 32, 68, 69, 83, 67, 82,
    73, 80, 84, 73, 79, 78, 10, 66, 97, 114, 32, 98, 97, 122, 10, 35, 32, 75, 69,
    89, 87, 79, 82, 68, 83, 10, 97, 44, 32, 98, 44, 32, 98, 44, 32, 10>>

Headings ==
  {headingTitle, headingDescription, headingSeoTitle, headingSeoDescription,
   headingKeywords}

\* What follows a heading up to the end of its section: nothing, "\nFoo",
\* "\n a, b, b, " or "\n" (a blank line).
Bodies ==
  {<<>>, <<10, 70, 111, 111>>, <<10, 32, 97, 44, 32, 98, 44, 32, 98, 44, 32>>, <<10>>}

\* A heading on a line of its own and what follows it.
Sections == {h \o b : h \in Headings, b \in Bodies}

\* Generated texts: the empty one, "Foo", which has no heading, one section,
\* and two sections separated by a newline.
RawContents ==
  {<<>>, <<70, 111, 111>>}
    \cup Sections
    \cup {s \o <<10>> \o t : s, t \in Sections}

\* What the LLM endpoint does with a request.
RemoteReplies ==
  {[kind |-> "response", content |-> sampleReply,
    usage |-> [prompt_tokens |-> 10, completion_tokens |-> 20, total_tokens |-> 30]],
   [kind |-> "response", content |-> <<70, 111, 111>>],
   [kind |-> "response", content |-> Null],
   [kind |-> "noChoices"]}

RemoteErrors ==
  {[kind |-> "error", error |-> [message |-> "Request failed", status |-> n]] :
     n \in {400, 401, 429, 500}}
  \cup {[kind |-> "error", error |-> [message |-> "socket hang up"]],
        [kind |-> "error", error |-> [message |-> ""]]}

RemoteOutcomes == RemoteReplies \cup RemoteErrors

\* The outcomes drawn for the calls made through the facade.
FacadeRemotes ==
  {[kind |-> "response", content |-> sampleReply],
   [kind |-> "error", error |-> [message |-> "Request failed", status |-> 401]],
   [kind |-> "noChoices"]}

\* Previous results handed to regenerateContent.
PreviousResults ==
  {[success |-> TRUE, content |-> parseGeneratedContent(sampleReply)],
   [success |-> TRUE],
   Failure("Request failed", "OPENAI_ERROR")}

PreviousContents ==
  {jsUndefined, [type |-> "object", content |-> parseGeneratedContent(sampleReply)]}

\* ---------------------------------------------------------------------------
\* Operations
\* ---------------------------------------------------------------------------

Init ==
  /\ env \in Envs
  /\ store = EmptyStore
  /\ last = [op |-> "init"]
  /\ enc = <<>>
  /\ dec = [op |-> "none"]
  /\ calls = <<>>

\* saveApiKey with the secret drawn from keys and the IV from ivs.
SaveApiKey(keys, ivs) ==
  \E provider \in Providers, apiKey \in keys, iv \in ivs, w1, w2 \in BOOLEAN :
    LET r == saveApiKey(store, env, provider, apiKey, iv, w1, w2)
    IN /\ store' = r.store
       /\ last' = [op |-> "saveApiKey", provider |-> provider, apiKey |-> apiKey,
                   ret |-> r.ret, writes |-> r.writes]
       /\ UNCHANGED <<env, enc, dec, calls>>

GetApiKey ==
  \E provider \in Filters, r1, r2 \in BOOLEAN :
    /\ last' = [op |-> "getApiKey", provider |-> provider,
                ret |-> getApiKey(store, env, provider, r1, r2),
                answered |-> r1 /\ r2]
    /\ UNCHANGED <<env, store, enc, dec, calls>>

DeleteApiKey ==
  \E provider \in Providers, r, w1, w2 \in BOOLEAN :
    LET d == deleteApiKey(store, provider, r, w1, w2)
    IN /\ store' = d.store
       /\ last' = [op |-> "deleteApiKey", provider |-> provider, ret |-> d.ret,
                   writes |-> d.writes, answered |-> r]
       /\ UNCHANGED <<env, enc, dec, calls>>

\* metafieldsFacade.getMetafield called on the store.
GetMetafield ==
  \E key \in MetafieldKeys, kind \in {"data", "threw", "noData"} :
    /\ last' = [op |-> "getMetafield", key |-> key,
                reply |-> queryReply(store, key, kind),
                ret |-> getMetafieldOn(queryReply(store, key, kind))]
    /\ UNCHANGED <<env, store, enc, dec, calls>>

\* metafieldsFacade.setMetafield called on the store, with the key drawn from
\* keys and the value from values.
SetMetafield(keys, values) ==
  \E key \in keys, value \in values, reply \in MutationReplies :
    /\ store' = IF written(reply) THEN [store EXCEPT ![key] = value] ELSE store
    /\ last' = [op |-> "setMetafield", key |-> key, value |-> value,
                reply |-> reply, ret |-> setMetafieldOn(reply)]
    /\ UNCHANGED <<env, enc, dec, calls>>

\* A call in flight: at is the await it will resume from ("writeKey",
\* "writeProvider" or "done"), key and provider are the values of its two
\* setMetafield calls.
running(op, at, key, provider, ret) ==
  [op |-> op, at |-> at, key |-> key, provider |-> provider, ret |-> ret]

\* A request starts saveApiKey, which runs up to its first setMetafield.
StartSaveApiKey ==
  \E provider \in {openaiApiKey, deepseekApiKey} :
    LET apiKey == IF provider = openaiApiKey THEN apiKeyOf(0) ELSE apiKeyOf(7)
        encryptedKey == encrypt(apiKey, ivOf(0), env)
    IN /\ Len(calls) < MaxCalls
       /\ calls' = Append(calls,
                          IF encryptedKey.threw
                          THEN running("saveApiKey", "done", Null, provider, FALSE)
                          ELSE running("saveApiKey", "writeKey", encryptedKey.value,
                                       provider, TRUE))
       /\ UNCHANGED <<env, store, last, enc, dec>>

\* A request starts deleteApiKey, which reads the stored provider and, on a
\* match, runs up to its first setMetafield.
StartDeleteApiKey ==
  \E provider \in {openaiApiKey, deepseekApiKey} :
    /\ Len(calls) < MaxCalls
    /\ calls' = Append(calls,
                       IF getMetafield(store, API_KEY_PROVIDER_KEY, TRUE) # provider
                       THEN running("deleteApiKey", "done", <<>>, <<>>, FALSE)
                       ELSE running("deleteApiKey", "writeKey", <<>>, <<>>, TRUE))
    /\ UNCHANGED <<env, store, last, enc, dec>>

\* The platform performs a call's write of encrypted_key.
WriteKey ==
  \E i \in 1..Len(calls) :
    /\ calls[i].at = "writeKey"
    /\ store' = setMetafield(store, API_KEY_FIELD_KEY, calls[i].key, TRUE).store
    /\ calls' = [calls EXCEPT ![i].at = "writeProvider"]
    /\ UNCHANGED <<env, last, enc, dec>>

\* The platform performs a call's write of provider, after which the call
\* returns.
WriteProvider ==
  \E i \in 1..Len(calls) :
    /\ calls[i].at = "writeProvider"
    /\ store' = setMetafield(store, API_KEY_PROVIDER_KEY, calls[i].provider, TRUE).store
    /\ calls' = [calls EXCEPT ![i].at = "done"]
    /\ last' = [op |-> calls[i].op, ret |-> calls[i].ret, call |-> i]
    /\ UNCHANGED <<env, enc, dec>>

\* The app is restarted with another ENCRYPTION_KEY.
SetEncryptionKey ==
  /\ env' \in Envs \ {env}
  /\ last' = [op |-> "restart"]
  /\ UNCHANGED <<store, enc, dec, calls>>

\* A facade call as the routes make it: what it returned or threw.
facadeCall(op, outcome, answered) ==
  [op |-> op, facade |-> TRUE, outcome |-> outcome, answered |-> answered]

GenerateProductContent(remotes) ==
  \E r1, r2, wellFormed \in BOOLEAN, remote \in remotes :
    /\ last' = facadeCall("generateProductContent",
                          generateProductContent(store, env, r1, r2, wellFormed, remote),
                          r1 /\ r2)
    /\ UNCHANGED <<env, store, enc, dec, calls>>

RegenerateContent(remotes) ==
  \E r1, r2 \in BOOLEAN, previousResult \in PreviousResults, remote \in remotes :
    /\ last' = [previousResult |-> previousResult]
                 @@ facadeCall("regenerateContent",
                               regenerateContent(store, env, r1, r2, previousResult,
                                                 remote),
                               r1 /\ r2)
    /\ UNCHANGED <<env, store, enc, dec, calls>>

GenerateFromImage(remotes) ==
  \E r1, r2, wellFormed \in BOOLEAN, remote \in remotes :
    /\ last' = facadeCall("generateFromImage",
                          generateFromImage(store, env, r1, r2, wellFormed, remote),
                          r1 /\ r2)
    /\ UNCHANGED <<env, store, enc, dec, calls>>

\* A provider method called directly on the exported singleton.
providerCall(impl, method, remote, r) ==
  [op |-> method, provider |-> impl, remote |-> remote, result |-> r.result,
   requests |-> r.requests]

OpenAIGenerateProductContent ==
  \E apiKey \in {apiKeyOf(0)}, wellFormed \in BOOLEAN, remote \in RemoteOutcomes :
    /\ last' = providerCall("openaiProvider", "generateProductContent", remote,
                            openaiGenerateProductContent(apiKey, wellFormed, remote))
    /\ UNCHANGED <<env, store, enc, dec, calls>>

OpenAIRegenerateContent ==
  \E apiKey \in {apiKeyOf(0)}, previousResult \in PreviousResults,
     remote \in RemoteOutcomes :
    /\ last' = providerCall("openaiProvider", "regenerateContent", remote,
                            openaiRegenerateContent(apiKey, previousResult, remote))
    /\ UNCHANGED <<env, store, enc, dec, calls>>

OpenAIGenerateFromImage ==
  \E apiKey \in {apiKeyOf(0)}, wellFormed \in BOOLEAN, remote \in RemoteOutcomes :
    /\ last' = providerCall("openaiProvider", "generateFromImage", remote,
                            openaiGenerateFromImage(apiKey, wellFormed, remote))
    /\ UNCHANGED <<env, store, enc, dec, calls>>

DeepSeekGenerateProductContent ==
  \E apiKey \in {apiKeyOf(0)}, wellFormed \in BOOLEAN, remote \in RemoteOutcomes :
    /\ last' = providerCall("deepseekProvider", "generateProductContent", remote,
                            deepseekGenerateProductContent(apiKey, wellFormed, remote))
    /\ UNCHANGED <<env, store, enc, dec, calls>>

DeepSeekRegenerateContent ==
  \E apiKey \in {apiKeyOf(0)}, previousResult \in PreviousResults,
     remote \in RemoteOutcomes :
    /\ last' = providerCall("deepseekProvider", "regenerateContent", remote,
                            deepseekRegenerateContent(apiKey, previousResult, remote))
    /\ UNCHANGED <<env, store, enc, dec, calls>>

DeepSeekGenerateFromImage ==
  \E apiKey \in {apiKeyOf(0)}, wellFormed \in BOOLEAN, remote \in RemoteOutcomes :
    /\ last' = providerCall("deepseekProvider", "generateFromImage", remote,
                            deepseekGenerateFromImage(apiKey, wellFormed, remote))
    /\ UNCHANGED <<env, store, enc, dec, calls>>

\* encrypt called directly, the IV being what randomBytes returned.
Encrypt ==
  \E plaintext \in Plaintexts, iv \in IVs :
    /\ enc = <<>>
    /\ enc' = <<[plaintext |-> plaintext, iv |-> iv, ret |-> encrypt(plaintext, iv, env)]>>
    /\ UNCHANGED <<env, store, last, dec, calls>>

\* A second encrypt call with the plaintext of the first.
EncryptAgain ==
  \E iv \in IVs :
    /\ Len(enc) = 1
    /\ dec.op = "none"
    /\ enc' = Append(enc, [plaintext |-> enc[1].plaintext, iv |-> iv,
                           ret |-> encrypt(enc[1].plaintext, iv, env)])
    /\ UNCHANGED <<env, store, last, dec, calls>>

\* decrypt called on a token encrypt returned, possibly altered on the way.
Decrypt ==
  \E i \in 1..Len(enc), t \in Tampers :
    /\ dec.op = "none"
    /\ ~enc[i].ret.threw
    /\ LET encryptedText == tamper(enc[i].ret.value, t)
       IN dec' = [op |-> "decrypt", token |-> i, tamper |-> t,
                  encryptedText |-> encryptedText,
                  ret |-> decrypt(encryptedText, env)]
    /\ UNCHANGED <<env, store, last, enc, calls>>

\* A submission of the settings form.
SubmitSettings ==
  \E form \in SettingsForms, w1, w2, w3, w4 \in BOOLEAN :
    LET r == settingsAction(store, env, form, ivOf(0), w1, w2, w3, w4)
    IN /\ store' = r.store
       /\ last' = [op |-> "settingsAction", form |-> form, response |-> r.response,
                   saved |-> r.saved, writes |-> r.writes]
       /\ UNCHANGED <<env, enc, dec, calls>>

\* A POST to the generate-content route.
PostGenerateContent ==
  \E productId \in {jsUndefined, jsString(productIdOf1)}, length \in RequestLengths,
     answered, fetched, r \in BOOLEAN, remote \in FacadeRemotes :
    LET payload == [productId |-> productId, length |-> length]
    IN /\ last' = [op |-> "generateContentAction", payload |-> payload,
                   response |-> generateContentAction(store, env, payload, answered,
                                                      fetched, r, r, remote)]
       /\ UNCHANGED <<env, store, enc, dec, calls>>

\* A POST to the regenerate-content route.
PostRegenerateContent ==
  \E productId \in {jsUndefined, jsString(productIdOf1)}, previousContent \in PreviousContents,
     feedback \in Feedbacks, length \in RequestLengths,
     answered, r \in BOOLEAN, remote \in FacadeRemotes :
    LET payload == [productId |-> productId, previousContent |-> previousContent,
                    feedback |-> feedback, length |-> length]
    IN /\ last' = [op |-> "regenerateContentAction", payload |-> payload,
                   response |-> regenerateContentAction(store, env, payload, answered,
                                                        r, r, remote)]
       /\ UNCHANGED <<env, store, enc, dec, calls>>

\* A schema applied to a candidate length.
ParseLength ==
  \E number \in Numbers :
    /\ last' = [op |-> "parse", number |-> number,
                generationOptions |->
                  GenerationOptionsSchema([length |-> jsNumber(number)]),
                defaultLength |-> intBetween(number, 100, 500)]
    /\ UNCHANGED <<env, store, enc, dec, calls>>

\* The parser applied to a generated text.
ParseGeneratedContent ==
  \E rawContent \in RawContents :
    /\ last' = [op |-> "parseGeneratedContent", rawContent |-> rawContent,
                content |-> parseGeneratedContent(rawContent)]
    /\ UNCHANGED <<env, store, enc, dec, calls>>

\* The API-key manager on its own.
Next ==
  \/ SaveApiKey(ApiKeys, {ivOf(0)})
  \/ GetApiKey
  \/ DeleteApiKey

Spec == Init /\ [][Next]_vars

\* The facade over a configured (or unconfigured) shop.
NextFacade ==
  \/ SaveApiKey({apiKeyOf(0)}, {ivOf(0)})
  \/ GenerateProductContent(FacadeRemotes)
  \/ RegenerateContent(FacadeRemotes)
  \/ GenerateFromImage(FacadeRemotes)

SpecFacade == Init /\ [][NextFacade]_vars

\* The facade and the provider singletons, as their callers see them.
NextProviders ==
  \/ SaveApiKey({apiKeyOf(0)}, {ivOf(0)})
  \/ GenerateProductContent(FacadeRemotes)
  \/ RegenerateContent(FacadeRemotes)
  \/ GenerateFromImage(FacadeRemotes)
  \/ OpenAIGenerateProductContent
  \/ OpenAIRegenerateContent
  \/ OpenAIGenerateFromImage
  \/ DeepSeekGenerateProductContent
  \/ DeepSeekRegenerateContent
  \/ DeepSeekGenerateFromImage

SpecProviders == Init /\ [][NextProviders]_vars

\* The settings form and the API-key manager over one shop.
NextSettings ==
  \/ SubmitSettings
  \/ SaveApiKey({apiKeyOf(7)}, {ivOf(0)})
  \/ DeleteApiKey

\* The shop runs with ENCRYPTION_KEY unset.
InitSettings == Init /\ env = Null

SpecSettings == InitSettings /\ [][NextSettings]_vars

\* The two generation routes over one shop.
NextRoutes ==
  \/ SaveApiKey({apiKeyOf(0)}, {ivOf(0)})
  \/ PostGenerateContent
  \/ PostRegenerateContent

SpecRoutes == InitSettings /\ [][NextRoutes]_vars

\* The length schemas on their own.
SpecSchemas == InitSettings /\ [][ParseLength]_vars

\* The parser on its own.
SpecParser == InitSettings /\ [][ParseGeneratedContent]_vars

\* The metafield store on its own.
SpecMetafields ==
  InitSettings
    /\ [][\/ GetMetafield
          \/ SetMetafield(MetafieldKeys, {<<>>, customPromptOk, customPromptShort})]_vars

\* Requests of one shop served concurrently: each await of a call is a step.
SpecConcurrent ==
  InitSettings
    /\ [][StartSaveApiKey \/ StartDeleteApiKey \/ WriteKey \/ WriteProvider]_vars

\* A shop whose configured secret changes and whose encrypted_key metafield
\* can be overwritten from outside the key manager.
SpecRotation ==
  Init
    /\ [][\/ SaveApiKey({apiKeyOf(0)}, {ivOf(0)})
          \/ SetEncryptionKey
          \/ SetMetafield({API_KEY_FIELD_KEY}, {customPromptOk})
          \/ GetApiKey
          \/ GenerateProductContent(FacadeRemotes)]_vars

\* The encryption service on its own.
NextCrypto ==
  \/ Encrypt
  \/ EncryptAgain
  \/ Decrypt

SpecCrypto == Init /\ [][NextCrypto]_vars

\* ---------------------------------------------------------------------------
\* Properties of the facade and the providers
\* ---------------------------------------------------------------------------

\* The last call was a facade method.
isFacadeCall == "facade" \in DOMAIN last

\* The last call was a method of a provider singleton, called directly.
isProviderCall == "result" \in DOMAIN last

\* A save all of whose writes the platform accepted.
savedAndWritten ==
  /\ last.op = "saveApiKey"
  /\ last.ret
  /\ \A i \in 1..Len(last.writes) : last.writes[i].ok

\* C1: after a successful saveApiKey(session, P, K) with P 'openaiApiKey' or
\* 'deepseekApiKey' (both writes accepted, both reads answered),
\* generateProductContent invokes generateProductContent of the provider P
\* names, once, with apiKey K.
C1_DelegatesToSavedProvider ==
  [][(/\ savedAndWritten
      /\ last.provider \in {openaiApiKey, deepseekApiKey}
      /\ last'.op = "generateProductContent"
      /\ last'.answered)
     => last'.outcome.calls =
          call(IF last.provider = openaiApiKey THEN "openaiProvider"
               ELSE "deepseekProvider",
               "generateProductContent", last.apiKey)]_vars

\* C2: when getApiKey returns null, generateProductContent returns
\* {success: false, errorCode: 'NO_API_KEY'} and neither a provider method is
\* invoked nor a request sent.
C2_NoApiKey ==
  (/\ isFacadeCall
   /\ last.op = "generateProductContent"
   /\ last.outcome.apiKeyData.isNull)
  => /\ ~last.outcome.threw
     /\ ~last.outcome.result.success
     /\ last.outcome.result.errorCode = "NO_API_KEY"
     /\ last.outcome.calls = <<>>
     /\ last.outcome.requests = <<>>

\* generateProductContent found no credential and said so.
C2_Witness ==
  /\ isFacadeCall
  /\ last.op = "generateProductContent"
  /\ last.outcome.apiKeyData.isNull
  /\ last.outcome.result.errorCode = "NO_API_KEY"

\* C3: no facade operation lets an exception escape; each returns a result
\* with a boolean success flag, whatever failed beneath it.
C3_NeverThrows ==
  isFacadeCall
  => /\ ~last.outcome.threw
     /\ "success" \in DOMAIN last.outcome.result
     /\ last.outcome.result.success \in BOOLEAN

\* regenerateContent found a credential, provider resolution threw, and the
\* catch block turned the exception into a result.
C3_Witness ==
  /\ isFacadeCall
  /\ last.op = "regenerateContent"
  /\ ~last.outcome.apiKeyData.isNull
  /\ ~last.outcome.threw
  /\ last.outcome.result.errorCode = "REGENERATION_FAILED"

\* success implies content; failure implies no content and an error text.
envelope(r) ==
  IF r.success
  THEN "content" \in DOMAIN r
  ELSE "content" \notin DOMAIN r /\ "error" \in DOMAIN r /\ r.error # ""

\* C4: every result returned by the facade or by either provider has content
\* when success is true, and has no content but an error when success is false.
C4_Envelope ==
  /\ isFacadeCall => ~last.outcome.threw /\ envelope(last.outcome.result)
  /\ isProviderCall => envelope(last.result)

\* A provider returned a positive result carrying parsed content.
C4_Witness ==
  /\ isProviderCall
  /\ last.result.success
  /\ "content" \in DOMAIN last.result
  /\ last.result.content.title # <<>>

\* ---------------------------------------------------------------------------
\* Properties of the API-key manager
\* ---------------------------------------------------------------------------

\* C5: after saveApiKey(session, provider, secret) returned true, getApiKey
\* without a filter, called next with both reads answered, returns exactly
\* {provider, apiKey: secret}.
C5_SaveThenGet ==
  [][(/\ last.op = "saveApiKey"
      /\ last.ret
      /\ last'.op = "getApiKey"
      /\ last'.provider = Null
      /\ last'.answered)
     => /\ ~last'.ret.isNull
        /\ last'.ret.provider = last.provider
        /\ last'.ret.apiKey = last.apiKey]_vars

\* C6: getApiKey with a provider filter (a provider identifier) returns null
\* whenever a credential is stored under another provider identifier, and
\* decrypt is not called.
C6_MismatchedFilter ==
  (/\ last.op = "getApiKey"
   /\ ~falsy(last.provider)
   /\ ~falsy(store[API_KEY_FIELD_KEY])
   /\ store[API_KEY_PROVIDER_KEY] # last.provider)
  => last.ret.isNull /\ last.ret.decrypts = 0

\* getApiKey('deepseekApiKey') or the like was answered by the platform while
\* a credential of another provider was stored, and returned null.
C6_Witness ==
  /\ last.op = "getApiKey"
  /\ last.answered
  /\ ~falsy(last.provider)
  /\ ~falsy(store[API_KEY_FIELD_KEY])
  /\ ~falsy(store[API_KEY_PROVIDER_KEY])
  /\ store[API_KEY_PROVIDER_KEY] # last.provider
  /\ last.ret.isNull
  /\ last.ret.decrypts = 0

\* C7: deleteApiKey(session, provider) returns false, attempts no write and
\* leaves both fields unchanged whenever the stored provider differs from the
\* requested one; it writes only when they match.
C7_DeleteOnlyOnMatch ==
  [][last'.op = "deleteApiKey"
     => /\ store[API_KEY_PROVIDER_KEY] # last'.provider
           => ~last'.ret /\ last'.writes = <<>> /\ store' = store
        /\ (last'.writes # <<>> \/ store' # store)
           => store[API_KEY_PROVIDER_KEY] = last'.provider]_vars

\* deleteApiKey was refused for a stored credential of another provider, which
\* is still there.
C7_Witness ==
  /\ last.op = "deleteApiKey"
  /\ last.answered
  /\ ~last.ret
  /\ last.writes = <<>>
  /\ ~falsy(store[API_KEY_FIELD_KEY])
  /\ ~falsy(store[API_KEY_PROVIDER_KEY])
  /\ store[API_KEY_PROVIDER_KEY] # last.provider

\* ---------------------------------------------------------------------------
\* Properties of the encryption service
\* ---------------------------------------------------------------------------

\* String.prototype.isWellFormed: no surrogate without its partner.
isWellFormed(s) ==
  \A i \in 1..Len(s) :
    /\ isHighSurrogate(s[i]) => i < Len(s) /\ isLowSurrogate(s[i + 1])
    /\ isLowSurrogate(s[i]) => i > 1 /\ isHighSurrogate(s[i - 1])

\* decrypt was given the token exactly as encrypt returned it.
decryptedUntouched == dec.op = "decrypt" /\ dec.tamper.kind = "none"

\* C8 as stated: for every plaintext P, decrypt(encrypt(P)) = P under the same
\* secret.
C8_RoundTripEveryString ==
  decryptedUntouched
  => ~dec.ret.threw /\ dec.ret.value = enc[dec.token].plaintext

\* C8, amended: for every well-formed plaintext P (no unpaired surrogate) and
\* every usable secret, encrypt(P) succeeds and decrypt(encrypt(P)) = P;
\* encrypt fails only when the configured secret is rejected.
C8_RoundTrip ==
  /\ \A i \in 1..Len(enc) : enc[i].ret.threw <=> getEncryptionKey(env).threw
  /\ (decryptedUntouched /\ isWellFormed(enc[dec.token].plaintext))
     => ~dec.ret.threw /\ dec.ret.value = enc[dec.token].plaintext

\* A plaintext holding a surrogate pair came back from decrypt unchanged.
C8_Witness ==
  /\ decryptedUntouched
  /\ \E i \in 1..Len(enc[dec.token].plaintext) :
       isHighSurrogate(enc[dec.token].plaintext[i])
  /\ isWellFormed(enc[dec.token].plaintext)
  /\ ~dec.ret.threw
  /\ dec.ret.value = enc[dec.token].plaintext

\* Number of ':' in a token.
delimiters(token) == Len(SelectSeq(token, LAMBDA c : c = Delimiter[1]))

\* The code units of a token before its first ':'.
ivSegment(token) == split(token, Delimiter[1])[1]

decryptFailed == dec.ret.threw /\ dec.ret.message = "Failed to decrypt data"

\* C9 as stated: decrypt fails for every token with no or with two or more
\* delimiters, and for every token whose IV segment differs from the one
\* encrypt produced.
C9_TamperedIvFails ==
  (/\ dec.op = "decrypt"
   /\ \/ delimiters(dec.encryptedText) # 1
      \/ ivSegment(dec.encryptedText) # ivSegment(enc[dec.token].ret.value))
  => decryptFailed

\* C9, amended: decrypt fails with the decryption error for every token with
\* no or with two or more delimiters, and for every token whose IV segment does
\* not decode to exactly 16 bytes.
C9_MalformedFails ==
  (/\ dec.op = "decrypt"
   /\ \/ delimiters(dec.encryptedText) # 1
      \/ Len(fromHex(ivSegment(dec.encryptedText))) # IV_LENGTH)
  => decryptFailed

\* A token with a second delimiter was rejected.
C9_Witness ==
  /\ dec.op = "decrypt"
  /\ delimiters(dec.encryptedText) = 2
  /\ decryptFailed

\* Both encrypt calls returned a token.
encryptedTwice == Len(enc) = 2 /\ ~enc[1].ret.threw /\ ~enc[2].ret.threw

\* C10 as stated: two encrypt calls with the same plaintext never return
\* identical tokens.
C10_NeverIdentical ==
  encryptedTwice => enc[1].ret.value # enc[2].ret.value

\* C10, amended: two encrypt calls with the same plaintext return identical
\* tokens exactly when randomBytes returned the same IV to both; with
\* different IVs the tokens differ.
C10_IdenticalOnlyOnSameIv ==
  encryptedTwice => (enc[1].ret.value = enc[2].ret.value <=> enc[1].iv = enc[2].iv)

\* Two encrypt calls of one plaintext drew different IVs and returned different
\* tokens.
C10_Witness ==
  /\ encryptedTwice
  /\ enc[1].plaintext = enc[2].plaintext
  /\ enc[1].iv # enc[2].iv
  /\ enc[1].ret.value # enc[2].ret.value

\* ---------------------------------------------------------------------------
\* Properties of the stored credential and the settings form
\* ---------------------------------------------------------------------------

\* t is a token encrypt returns for one of the secrets under the configured key.
isCiphertext(t) ==
  \E apiKey \in ApiKeys, iv \in IVs : encrypt(apiKey, iv, env) = Return(t)

\* C11: whatever saveApiKey, deleteApiKey and settings submissions have done,
\* the encrypted_key metafield is unset, empty or a token produced by encrypt,
\* and never one of the plaintext secrets.
C11_EncryptedAtRest ==
  /\ store[API_KEY_FIELD_KEY] \notin ApiKeys
  /\ \/ store[API_KEY_FIELD_KEY] = Null
     \/ store[API_KEY_FIELD_KEY] = <<>>
     \/ isCiphertext(store[API_KEY_FIELD_KEY])

\* A settings submission was accepted and the metafield now holds a token.
C11_Witness ==
  /\ last.op = "settingsAction"
  /\ last.response = "redirect"
  /\ last.writes[1].ok
  /\ isCiphertext(store[API_KEY_FIELD_KEY])

\* ---------------------------------------------------------------------------
\* Properties of regeneration, image generation and error mapping
\* ---------------------------------------------------------------------------

\* C12: with a credential at hand, the facade's regenerateContent fails with
\* errorCode 'NO_PREVIOUS_CONTENT' whenever previousResult.success is false or
\* previousResult.content is absent.
C12_NoPreviousContent ==
  (/\ isFacadeCall
   /\ last.op = "regenerateContent"
   /\ ~last.outcome.apiKeyData.isNull
   /\ noPreviousContent(last.previousResult))
  => /\ ~last.outcome.result.success
     /\ last.outcome.result.errorCode = "NO_PREVIOUS_CONTENT"

\* C13: generateFromImage of the DeepSeek provider returns, for every input,
\* {success: false, errorCode: 'FEATURE_NOT_SUPPORTED'} and sends no request.
C13_DeepSeekImageNotSupported ==
  (/\ isProviderCall
   /\ last.provider = "deepseekProvider"
   /\ last.op = "generateFromImage")
  => /\ ~last.result.success
     /\ last.result.errorCode = "FEATURE_NOT_SUPPORTED"
     /\ last.requests = <<>>

\* The provider's own fallback error codes.
genericErrorCodes(impl) ==
  IF impl = "openaiProvider"
  THEN {"OPENAI_ERROR", "OPENAI_REGENERATION_ERROR", "OPENAI_IMAGE_ERROR"}
  ELSE {"DEEPSEEK_ERROR", "DEEPSEEK_REGENERATION_ERROR", "DEEPSEEK_IMAGE_ERROR"}

\* C14: for each provider and each of its operations that sent a request, a
\* failure with HTTP status 401 yields 'INVALID_API_KEY', status 429 yields
\* 'RATE_LIMIT_EXCEEDED', a rejected image (status 400 on generateFromImage)
\* yields 'INVALID_IMAGE', and any other failure one of the provider's generic
\* error codes.
C14_ErrorMapping ==
  (/\ isProviderCall
   /\ last.requests # <<>>
   /\ last.remote.kind = "error")
  => /\ ~last.result.success
     /\ last.result.errorCode =
          IF hasStatus(last.remote.error, 401) THEN "INVALID_API_KEY"
          ELSE IF hasStatus(last.remote.error, 429) THEN "RATE_LIMIT_EXCEEDED"
          ELSE IF last.op = "generateFromImage" /\ hasStatus(last.remote.error, 400)
          THEN "INVALID_IMAGE"
          ELSE last.result.errorCode
     /\ (\A n \in {400, 401, 429} : ~hasStatus(last.remote.error, n))
        => last.result.errorCode \in genericErrorCodes(last.provider)

\* ---------------------------------------------------------------------------
\* Properties of request validation
\* ---------------------------------------------------------------------------

\* The last step was a POST to one of the two generation routes.
isRoutePost == last.op \in {"generateContentAction", "regenerateContentAction"}

\* The number n lies outside [100, 500].
outsideLimits(n) == n.isNaN \/ n.tenths < 10 * 100 \/ n.tenths > 10 * 500

\* C15: a POST to generate-content or regenerate-content whose length is a
\* number outside [100, 500] is answered without success and without the
\* action having looked up the credential, fetched the product or called the
\* facade (and so a provider).
C15_RejectedBeforeLookup ==
  (/\ isRoutePost
   /\ last.payload.length.type = "number"
   /\ outsideLimits(last.payload.length.number))
  => /\ ~last.response.success
     /\ last.response.credentialLookups = 0
     /\ last.response.productFetches = 0
     /\ last.response.facade = <<>>

\* A complete generate-content request of length 600 for a shop with a stored
\* credential was answered with status 500.
C15_Witness ==
  /\ last.op = "generateContentAction"
  /\ last.payload.productId = jsString(productIdOf1)
  /\ last.payload.length = jsNumber(Number(600))
  /\ store[API_KEY_FIELD_KEY] \notin {Null, <<>>}
  /\ store[API_KEY_PROVIDER_KEY] = openaiApiKey
  /\ last.response.status = 500

\* C16: GenerationOptionsSchema accepts an integer length exactly when
\* 100 <= length <= 500; it rejects 50 and 600 and accepts 100 and 500.
C16_InclusiveLimits ==
  (last.op = "parse" /\ ~last.number.isNaN /\ last.number.tenths % 10 = 0)
  => /\ last.generationOptions <=> ~outsideLimits(last.number)
     /\ last.number \in {Number(50), Number(600)} => ~last.generationOptions
     /\ last.number \in {Number(100), Number(500)} => last.generationOptions

\* The schema accepted the upper limit.
C16_Witness ==
  /\ last.op = "parse"
  /\ last.number = Number(500)
  /\ last.generationOptions

\* ---------------------------------------------------------------------------
\* Properties of provider resolution and of the single remote call
\* ---------------------------------------------------------------------------

\* C17: when the stored provider identifier is neither 'openaiApiKey' nor
\* 'deepseekApiKey', generateProductContent of the facade returns a negative
\* result with errorCode 'GENERATION_FAILED', having invoked no provider
\* method and sent no request.
C17_UnknownProvider ==
  (/\ isFacadeCall
   /\ last.op = "generateProductContent"
   /\ ~last.outcome.apiKeyData.isNull
   /\ last.outcome.apiKeyData.provider \notin {openaiApiKey, deepseekApiKey})
  => /\ ~last.outcome.threw
     /\ ~last.outcome.result.success
     /\ last.outcome.result.errorCode = "GENERATION_FAILED"
     /\ last.outcome.calls = <<>>
     /\ last.outcome.requests = <<>>

\* The facade found a credential stored under 'openai' and reported
\* GENERATION_FAILED.
C17_Witness ==
  /\ isFacadeCall
  /\ last.op = "generateProductContent"
  /\ ~last.outcome.apiKeyData.isNull
  /\ last.outcome.apiKeyData.provider = openai
  /\ last.outcome.result.errorCode = "GENERATION_FAILED"

\* C18: no operation sends more than one chat-completion request, whether it
\* is called on a provider or through the facade, and when the one request of
\* a provider operation fails the operation returns a negative result.
C18_NoRetries ==
  /\ isFacadeCall => Len(last.outcome.requests) <= 1
  /\ isProviderCall
     => /\ Len(last.requests) <= 1
        /\ (last.requests # <<>> /\ last.remote.kind = "error")
           => ~last.result.success

\* A provider operation sent its request, the request failed with status 429,
\* and the operation returned a negative result after that one request.
C18_Witness ==
  /\ isProviderCall
  /\ last.op = "generateProductContent"
  /\ last.remote.kind = "error"
  /\ hasStatus(last.remote.error, 429)
  /\ Len(last.requests) = 1
  /\ ~last.result.success

\* ---------------------------------------------------------------------------
\* Properties of the structured-text parser
\* ---------------------------------------------------------------------------

\* The heading occurs in the text.
hasHeading(raw, heading) == \E i \in 1..Len(raw) : hasAt(raw, heading, i)

\* The trimmed text between the first occurrence of the heading and the next
\* line that starts a section ("\n# "), or the end of the text; '' when the
\* heading does not occur.
sectionText(raw, heading) ==
  IF ~hasHeading(raw, heading) THEN <<>>
  ELSE LET i == CHOOSE a \in 1..Len(raw) :
                  hasAt(raw, heading, a) /\ \A b \in 1..(a - 1) : ~hasAt(raw, heading, b)
           from == i + Len(heading)
           e == CHOOSE a \in from..(Len(raw) + 1) :
                  /\ a = Len(raw) + 1 \/ hasAt(raw, sectionEnd, a)
                  /\ \A b \in from..(a - 1) : ~hasAt(raw, sectionEnd, b)
       IN trim(SubSeq(raw, from, e - 1))

\* An optional field holds the text of its section; it is absent when the
\* heading is missing, and may be absent when the section is empty.
optionalHolds(content, name, raw, heading) ==
  IF name \in DOMAIN content
  THEN hasHeading(raw, heading) /\ content[name] = sectionText(raw, heading)
  ELSE sectionText(raw, heading) = <<>>

\* C19: parseGeneratedContent assigns to title, description, seoTitle and
\* seoDescription the trimmed text between the field's heading and the next
\* section heading or the end of the text, also when a section is empty; with
\* the heading missing title and description are '' and seoTitle,
\* seoDescription and keywords are absent.
C19_SectionText ==
  last.op = "parseGeneratedContent"
  => /\ last.content.title = sectionText(last.rawContent, headingTitle)
     /\ last.content.description = sectionText(last.rawContent, headingDescription)
     /\ optionalHolds(last.content, "seoTitle", last.rawContent, headingSeoTitle)
     /\ optionalHolds(last.content, "seoDescription", last.rawContent,
                      headingSeoDescription)
     /\ "keywords" \in DOMAIN last.content => hasHeading(last.rawContent, headingKeywords)

\* The comma-separated tokens of a text, trimmed, without the empty ones.
tokens(text) ==
  LET parts == split(text, 44)
      nonEmpty(t) == t # <<>>
  IN SelectSeq([i \in 1..Len(parts) |-> trim(parts[i])], nonEmpty)

\* C20: when the text has a KEYWORDS section, keywords holds the
\* comma-separated tokens of the section's text in their order, each trimmed,
\* empty ones dropped, duplicates kept (absent at most when there is none).
C20_Keywords ==
  (last.op = "parseGeneratedContent" /\ hasHeading(last.rawContent, headingKeywords))
  => IF "keywords" \in DOMAIN last.content
     THEN last.content.keywords = tokens(sectionText(last.rawContent, headingKeywords))
     ELSE tokens(sectionText(last.rawContent, headingKeywords)) = <<>>

\* ---------------------------------------------------------------------------
\* Properties of the settings form and of the metafield store
\* ---------------------------------------------------------------------------

\* C21: with an API key stored, a submission of the settings form that leaves
\* the API key blank (the other fields valid) leaves the stored key and
\* provider as they are and writes the custom prompt and the default length.
C21_BlankKeyKeepsKey ==
  [][(/\ ~falsy(store[API_KEY_FIELD_KEY])
      /\ last'.op = "settingsAction"
      /\ last'.form = [SettingsFormOk EXCEPT !.apiKey = <<>>])
     => /\ store'[API_KEY_FIELD_KEY] = store[API_KEY_FIELD_KEY]
        /\ store'[API_KEY_PROVIDER_KEY] = store[API_KEY_PROVIDER_KEY]
        /\ last'.response = "redirect"
        /\ \E i, j \in 1..Len(last'.writes) :
             /\ last'.writes[i].key = "custom_prompt"
             /\ last'.writes[i].value = last'.form.customPrompt
             /\ last'.writes[j].key = "default_length"
             /\ last'.writes[j].value = last'.form.defaultLength]_vars

\* C22: getMetafield and setMetafield never throw; getMetafield returns null
\* for a key never set and whenever the platform call fails; setMetafield
\* returns false whenever the value was not written (the call failed or the
\* platform reported user errors).
C22_StoreNeverThrows ==
  /\ last.op = "getMetafield"
     => /\ ~last.ret.threw
        /\ (last.reply.kind # "data" \/ store[last.key] = Null) => last.ret.value = Null
  /\ last.op = "setMetafield"
     => /\ ~last.ret.threw
        /\ ~written(last.reply) => last.ret.value = FALSE

\* ---------------------------------------------------------------------------
\* Properties of the API-key manager's writes
\* ---------------------------------------------------------------------------

\* C23: saveApiKey writes the ciphertext first and the provider second and
\* undoes nothing: when the ciphertext write is accepted and the provider
\* write is not, the store holds the new ciphertext and the provider
\* identifier it held before.
C23_NoRollback ==
  [][(/\ last'.op = "saveApiKey"
      /\ last'.writes # <<>>)
     => /\ Len(last'.writes) = 2
        /\ last'.writes[1].key = API_KEY_FIELD_KEY
        /\ last'.writes[2].key = API_KEY_PROVIDER_KEY
        /\ (last'.writes[1].ok /\ ~last'.writes[2].ok)
           => /\ store'[API_KEY_FIELD_KEY] = last'.writes[1].value
              /\ store'[API_KEY_PROVIDER_KEY] = store[API_KEY_PROVIDER_KEY]]_vars

\* A save for 'deepseekApiKey' whose provider write failed left its ciphertext
\* next to the provider 'openaiApiKey' of an earlier save.
C23_Witness ==
  /\ last.op = "saveApiKey"
  /\ last.provider = deepseekApiKey
  /\ last.apiKey = apiKeyOf(7)
  /\ last.writes # <<>>
  /\ last.writes[1].ok
  /\ ~last.writes[2].ok
  /\ store[API_KEY_FIELD_KEY] = last.writes[1].value
  /\ store[API_KEY_PROVIDER_KEY] = openaiApiKey

\* ENCRYPTION_KEY is given in hex form and does not decode to 32 bytes.
wrongLengthHexKey ==
  /\ env # Null
  /\ startsWith(env, hexPrefix)
  /\ Len(fromHex(substring(env, 4))) # KEY_LENGTH

\* C24: with ENCRYPTION_KEY in hex form and a decoded length other than 32
\* bytes, getEncryptionKey throws, encrypt throws, and saveApiKey returns
\* false without attempting a write, so that no metafield is ever set.
C24_WrongLengthHexKey ==
  wrongLengthHexKey
  => /\ getEncryptionKey(env).threw
     /\ last.op = "saveApiKey"
        => /\ encrypt(last.apiKey, ivOf(0), env).threw
           /\ ~last.ret
           /\ last.writes = <<>>
     /\ store = EmptyStore

\* saveApiKey returned false under a 4-byte hex key.
C24_Witness ==
  /\ env = hexKeyOf(4)
  /\ last.op = "saveApiKey"
  /\ ~last.ret
  /\ store = EmptyStore

\* C25: when every concurrent saveApiKey and deleteApiKey call of the shop
\* has returned, the stored record is cleared (both fields unset or '') or
\* its ciphertext and its provider identifier are those written by one and
\* the same saveApiKey call.
C25_ConsistentRecord ==
  (\A i \in 1..Len(calls) : calls[i].at = "done")
  => \/ falsy(store[API_KEY_FIELD_KEY]) /\ falsy(store[API_KEY_PROVIDER_KEY])
     \/ \E i \in 1..Len(calls) :
          /\ calls[i].op = "saveApiKey"
          /\ calls[i].ret
          /\ store[API_KEY_FIELD_KEY] = calls[i].key
          /\ store[API_KEY_PROVIDER_KEY] = calls[i].provider

\* C26: saveApiKey returns true only when both of its writes were accepted;
\* when a write is rejected it returns false.
C26_TrueOnlyIfWritten ==
  (last.op = "saveApiKey" /\ last.ret)
  => /\ Len(last.writes) = 2
     /\ \A i \in 1..Len(last.writes) : last.writes[i].ok

\* C27: after deleteApiKey has returned true, the next call, when it is a
\* getApiKey, returns null, and when it is a deleteApiKey for the same provider,
\* returns false.
C27_DeletedStaysDeleted ==
  [][(last.op = "deleteApiKey" /\ last.ret)
     => /\ last'.op = "getApiKey" => last'.ret.isNull
        /\ (last'.op = "deleteApiKey" /\ last'.provider = last.provider)
           => ~last'.ret]_vars

\* ---------------------------------------------------------------------------
\* Properties of a credential that cannot be decrypted
\* ---------------------------------------------------------------------------

\* A ciphertext is stored and decrypt throws on it under the configured secret.
undecryptable ==
  /\ ~falsy(store[API_KEY_FIELD_KEY])
  /\ decrypt(store[API_KEY_FIELD_KEY], env).threw

\* C28: when a ciphertext is stored and decrypt fails on it (a malformed token
\* or a changed ENCRYPTION_KEY), getApiKey returns null and the facade's
\* generateProductContent returns errorCode 'NO_API_KEY' without calling a
\* provider.
C28_UndecryptableIsNoKey ==
  undecryptable
  => /\ last.op = "getApiKey" => last.ret.isNull
     /\ (isFacadeCall /\ last.op = "generateProductContent")
        => /\ ~last.outcome.threw
           /\ last.outcome.apiKeyData.isNull
           /\ ~last.outcome.result.success
           /\ last.outcome.result.errorCode = "NO_API_KEY"
           /\ last.outcome.calls = <<>>

\* generateProductContent reported NO_API_KEY for a shop whose stored token
\* was encrypted under another ENCRYPTION_KEY; decrypt was called and threw.
C28_Witness ==
  /\ undecryptable
  /\ store[API_KEY_FIELD_KEY] # customPromptOk
  /\ env \in {Null, hexKeyOf(KEY_LENGTH)}
  /\ isFacadeCall
  /\ last.op = "generateProductContent"
  /\ last.outcome.apiKeyData.decrypts = 1
  /\ last.outcome.result.errorCode = "NO_API_KEY"

\* ---------------------------------------------------------------------------
\* Properties of what the routes save and pass on
\* ---------------------------------------------------------------------------

\* C29: the settings action answers with the redirect only when every write it
\* attempted was accepted: those of the API key save when a key was supplied,
\* the custom_prompt write and the default_length write.
C29_RedirectOnlyIfSaved ==
  (last.op = "settingsAction" /\ last.response = "redirect")
  => /\ ~falsy(last.form.apiKey) => last.saved /\ Len(last.writes) = 4
     /\ \A i \in 1..Len(last.writes) : last.writes[i].ok

\* C30: the options a generation route passes to the facade carry an integer
\* length between 100 and 500, the one the request asked for and not the
\* fallback 250.
C30_ValidatedLength ==
  (isRoutePost /\ last.response.facade # <<>>)
  => /\ intBetween(last.response.facade[1].options.length, 100, 500)
     /\ last.payload.length.type = "number"
     /\ last.response.facade[1].options.length = last.payload.length.number

\* The generate-content route passed length 500 on to the facade.
C30_Witness ==
  /\ last.op = "generateContentAction"
  /\ last.payload.length = jsNumber(Number(500))
  /\ last.response.facade # <<>>
  /\ last.response.facade[1].options.length = Number(500)

====
